---- MODULE Spec2Model ----
(***************************************************************************)
(* A model of the cell content model and the Bag-Of-Cells container of    *)
(* everscale-types: cell hashing and validation (cell/cell_context.rs),   *)
(* the BOC tags and the Boc encode/decode entry points (boc/mod.rs), and  *)
(* the byte layout of the container they produce and consume.             *)
(*                                                                         *)
(* Bytes are naturals 0..255 and buffers are sequences of bytes.  SHA-256 *)
(* is modelled as a collision-free function: a hash value is the record   *)
(* of the byte string that was hashed, so two hashes are equal exactly    *)
(* when their inputs are.                                                  *)
(***************************************************************************)
EXTENDS Integers, Sequences, FiniteSets, TLC

VARIABLES
    parts,      \* hashing: the cell parts handed to compute_hashes
    hres,       \* hashing: what compute_hashes returned
    tag_val,    \* tags: the tag given to to_bytes
    tag_in,     \* tags: the four bytes given to from_bytes
    tag_match,  \* tags: what from_bytes returned
    arena,      \* boc: the cells finalized so far
    buf,        \* boc: the byte buffer
    src,        \* boc: how the buffer was made (roots, options, changed byte)
    dec,        \* boc: what the last decode returned
    num,        \* integers: the operation asked for and what it returned
    loads,      \* load modes: the load requests a context has received
    act,        \* out actions: the action stored and loaded, the list iterated
    addr        \* addresses: the address stored and loaded

hashVars == <<parts, hres>>

tagVars == <<tag_val, tag_in, tag_match>>

bocVars == <<arena, buf, src, dec>>

numVars == <<num, loads, act, addr>>

vars == <<parts, hres, tag_val, tag_in, tag_match, arena, buf, src, dec, num, loads, act, addr>>

(***************************************************************************)
(* Bounds of the model.                                                    *)
(***************************************************************************)
MaxHashRefs == 2

(***************************************************************************)
(* Bytes and bit operations on small naturals.                             *)
(***************************************************************************)
Byte == 0..255

Min(a, b) == IF a < b THEN a ELSE b

Max(a, b) == IF a > b THEN a ELSE b

RECURSIVE Pow2(_)
Pow2(n) == IF n = 0 THEN 1 ELSE 2 * Pow2(n - 1)

Bit(x, i) == (x \div Pow2(i)) % 2

RECURSIVE BitOr(_, _)
BitOr(a, b) ==
    IF a = 0 THEN b
    ELSE IF b = 0 THEN a
    ELSE Max(a % 2, b % 2) + 2 * BitOr(a \div 2, b \div 2)

RECURSIVE BitAnd(_, _)
BitAnd(a, b) ==
    IF a = 0 \/ b = 0 THEN 0
    ELSE Min(a % 2, b % 2) + 2 * BitAnd(a \div 2, b \div 2)

RECURSIVE BitXor(_, _)
BitXor(a, b) ==
    IF a = 0 THEN b
    ELSE IF b = 0 THEN a
    ELSE ((a + b) % 2) + 2 * BitXor(a \div 2, b \div 2)

RECURSIVE PopCount(_)
PopCount(x) == IF x = 0 THEN 0 ELSE (x % 2) + PopCount(x \div 2)

RECURSIVE BitLength(_)
BitLength(x) == IF x = 0 THEN 0 ELSE 1 + BitLength(x \div 2)

RECURSIVE TrailingZeros8(_)
TrailingZeros8(x) ==
    IF x = 0 THEN 8 ELSE IF x % 2 = 1 THEN 0 ELSE 1 + TrailingZeros8(x \div 2)

SubSeqFrom(s, from) == SubSeq(s, from, Len(s))

Last(s) == s[Len(s)]

RECURSIVE Repeat(_, _)
Repeat(b, n) == IF n = 0 THEN <<>> ELSE <<b>> \o Repeat(b, n - 1)

(***************************************************************************)
(* Cell descriptor and level mask (crate::cell, used by compute_hashes).   *)
(* d1 = refs (bits 0..2) | exotic (bit 3) | store-hashes (bit 4) |         *)
(* level mask (bits 5..7); d2 = floor(bits/8) + ceil(bits/8).              *)
(***************************************************************************)
MAX_REF_COUNT == 4

MAX_BIT_LEN == 1023

descriptor_level_mask(d1) == d1 \div 32

descriptor_is_exotic(d1) == Bit(d1, 3) = 1

descriptor_store_hashes(d1) == Bit(d1, 4) = 1

descriptor_reference_count(d1) == d1 % 8

descriptor_byte_len(d2) == (d2 \div 2) + (d2 % 2)

descriptor_is_aligned(d2) == d2 % 2 = 0

compute_d1(level_mask, is_exotic, ref_count) ==
    32 * level_mask + (IF is_exotic THEN 8 ELSE 0) + ref_count

compute_d2(bit_len) == 2 * (bit_len \div 8) + (IF bit_len % 8 # 0 THEN 1 ELSE 0)

\* LevelMask::level: the number of bits needed for the mask (highest set bit + 1).
LevelMask_level(mask) == BitLength(mask)

\* LevelMask::from_level: the mask with levels 1..level set.
LevelMask_from_level(level) ==
    CASE level = 0 -> 0
      [] level = 1 -> 1
      [] level = 2 -> 3
      [] OTHER -> 7

\* LevelMask::contains: level 0 is always contained.
LevelMask_contains(mask, level) == level = 0 \/ Bit(mask, level - 1) = 1

\* LevelMask::virtualize: one virtualization step per offset.
LevelMask_virtualize(mask, offset) == mask \div Pow2(offset)

\* LevelMask::hash_index: how many significant levels lie at or below `level`.
LevelMask_hash_index(mask, level) == PopCount(BitAnd(mask, LevelMask_from_level(level)))

(***************************************************************************)
(* Cell types and the exotic type tag in the first data byte.              *)
(***************************************************************************)
TAG_PRUNED_BRANCH == 1

TAG_LIBRARY_REFERENCE == 2

TAG_MERKLE_PROOF == 3

TAG_MERKLE_UPDATE == 4

CellType_from_byte_exotic(b) ==
    CASE b = TAG_PRUNED_BRANCH -> "PrunedBranch"
      [] b = TAG_LIBRARY_REFERENCE -> "LibraryReference"
      [] b = TAG_MERKLE_PROOF -> "MerkleProof"
      [] b = TAG_MERKLE_UPDATE -> "MerkleUpdate"
      [] OTHER -> "None"

CellType_is_merkle(t) == t \in {"MerkleProof", "MerkleUpdate"}

CellType_is_pruned_branch(t) == t = "PrunedBranch"

(***************************************************************************)
(* Hash values.  An item of a hash input is one byte, or one 32-byte hash. *)
(***************************************************************************)
ByteItem(b) == [b |-> b, h |-> <<>>]

HashItem(hv) == [b |-> 256, h |-> <<hv>>]

ByteItems(bytes) == [i \in 1..Len(bytes) |-> ByteItem(bytes[i])]

ItemLen(it) == IF it.b = 256 THEN 32 ELSE 1

RECURSIVE ItemsLen(_)
ItemsLen(items) ==
    IF items = <<>> THEN 0 ELSE ItemLen(items[1]) + ItemsLen(Tail(items))

\* The number of bytes of a hash input: 32 for a hash, 1 for a byte.
HashedLen(items) ==
    Len(items) + 31 * Cardinality({i \in 1..Len(items) : items[i].b = 256})

\* sha2::Sha256::digest of the assembled buffer.
Sha256(items) == [k |-> "sha256", in |-> items]

\* 32 bytes read out of a cell's data (a hash stored in a pruned branch).
RawHash(bytes) == [k |-> "raw", in |-> ByteItems(bytes)]

(***************************************************************************)
(* Finalized cells: DynCell::descriptor / hash(level) / depth(level).      *)
(* A cell is [d1, d2, bit_len, data, references, hashes].                  *)
(***************************************************************************)
cell_type(c) ==
    IF descriptor_is_exotic(c.d1) THEN CellType_from_byte_exotic(c.data[1])
    ELSE "Ordinary"

cell_level_mask(c) == descriptor_level_mask(c.d1)

cell_hash(c, level) ==
    LET mask == cell_level_mask(c)
        idx == LevelMask_hash_index(mask, level)
        own == LevelMask_level(mask)
    IN  IF cell_type(c) = "PrunedBranch"
        THEN IF idx >= own THEN c.hashes[1][1]
             ELSE RawHash(SubSeq(c.data, 3 + 32 * idx, 2 + 32 * idx + 32))
        ELSE c.hashes[idx + 1][1]

cell_depth(c, level) ==
    LET mask == cell_level_mask(c)
        idx == LevelMask_hash_index(mask, level)
        own == LevelMask_level(mask)
        off == 2 + 32 * own + 2 * idx
    IN  IF cell_type(c) = "PrunedBranch"
        THEN IF idx >= own THEN c.hashes[1][2]
             ELSE 256 * c.data[off + 1] + c.data[off + 2]
        ELSE c.hashes[idx + 1][2]

repr_hash(c) == c.hashes[Len(c.hashes)][1]

RECURSIVE children_mask_of(_)
children_mask_of(refs) ==
    IF refs = <<>> THEN 0
    ELSE BitOr(cell_level_mask(refs[1]), children_mask_of(Tail(refs)))

(***************************************************************************)
(* CellParts::compute_hashes.                                              *)
(***************************************************************************)
HASH_BITS == 256

DEPTH_BITS == 16

MAX_CELL_SIZE == 2 + 128 + MAX_REF_COUNT * (2 + 32)

U16_MAX == 65535

\* What a call of compute_hashes ends with.  `ub` tells that a copy into
\* data_to_hash reached past its MAX_CELL_SIZE bytes on the way: the
\* behaviour of the call is then undefined.
HashOk(hashes) == [ok |-> TRUE, err |-> "", hashes |-> hashes, ub |-> FALSE]

HashErr(e) == [ok |-> FALSE, err |-> e, hashes |-> <<>>, ub |-> FALSE]

\* A call that does not return.
HashNoReturn == [ok |-> FALSE, err |-> "no return", hashes |-> <<>>, ub |-> TRUE]

\* The byte strings a digest can be taken of.
AnyBytes == Seq([b : 0..255, h : {<<>>}])

\* The ends of a call whose behaviour is undefined: it returns any pairs of
\* a digest and a depth, or any error, or it ends in another way (a signal,
\* a panic, no return), named by `err`.
UndefinedEnds ==
    [ok : BOOLEAN, err : STRING,
     hashes : Seq([k : {"sha256"}, in : AnyBytes] \X (0..U16_MAX)), ub : {TRUE}]

TypeOk(t, m, n) == [ok |-> TRUE, cell_type |-> t, computed_level_mask |-> m, hashes_len |-> n]

TypeErr == [ok |-> FALSE, cell_type |-> "None", computed_level_mask |-> 0, hashes_len |-> 0]

\* A pruned branch arm that forgets the level check.
pruned_branch_arm_any_level(p, level_mask, level) ==
    IF p.bit_len # 8 + 8 + level * (HASH_BITS + DEPTH_BITS) \/ p.references # <<>>
    THEN TypeErr
    ELSE LET stored_mask == IF Len(p.data) >= 2 THEN p.data[2] ELSE 0
         IN  IF level_mask # stored_mask THEN TypeErr
             ELSE TypeOk("PrunedBranch", level_mask, 1)

\* The PrunedBranch arm: 8 bits type, 8 bits level mask, level x (hash, depth).
pruned_branch_arm(p, level_mask, level) ==
    IF level = 0 THEN TypeErr
    ELSE IF p.bit_len # 8 + 8 + level * (HASH_BITS + DEPTH_BITS) \/ p.references # <<>>
    THEN TypeErr
    ELSE LET stored_mask == IF Len(p.data) >= 2 THEN p.data[2] ELSE 0
         IN  IF level_mask # stored_mask THEN TypeErr
             ELSE TypeOk("PrunedBranch", level_mask, 1)

\* The MerkleProof arm: 8 bits type, hash, depth.
merkle_proof_arm(p) ==
    IF p.bit_len # 8 + HASH_BITS + DEPTH_BITS \/ Len(p.references) # 1 THEN TypeErr
    ELSE TypeOk("MerkleProof", LevelMask_virtualize(p.children_mask, 1),
                LevelMask_level(descriptor_level_mask(p.d1)) + 1)

\* A MerkleUpdate arm that looks at the bit length only.
merkle_update_arm_any_refs(p) ==
    IF p.bit_len # 8 + 2 * (HASH_BITS + DEPTH_BITS) THEN TypeErr
    ELSE TypeOk("MerkleUpdate", LevelMask_virtualize(p.children_mask, 1),
                LevelMask_level(descriptor_level_mask(p.d1)) + 1)

\* The MerkleUpdate arm: 8 bits type, 2 x (hash, depth).
merkle_update_arm(p) ==
    IF p.bit_len # 8 + 2 * (HASH_BITS + DEPTH_BITS) \/ Len(p.references) # 2 THEN TypeErr
    ELSE TypeOk("MerkleUpdate", LevelMask_virtualize(p.children_mask, 1),
                LevelMask_level(descriptor_level_mask(p.d1)) + 1)

\* The LibraryReference arm: 8 bits type, hash.
library_reference_arm(p) ==
    IF p.bit_len # 8 + HASH_BITS \/ p.references # <<>> THEN TypeErr
    ELSE TypeOk("LibraryReference", 0, LevelMask_level(descriptor_level_mask(p.d1)) + 1)

\* A match that looks at the first data byte before the exotic flag.
classify_by_first_byte(p) ==
    LET level_mask == descriptor_level_mask(p.d1)
        level == LevelMask_level(level_mask)
        t == IF p.data = <<>> THEN "None" ELSE CellType_from_byte_exotic(p.data[1])
    IN  CASE t = "PrunedBranch" -> pruned_branch_arm(p, level_mask, level)
          [] t = "MerkleProof" -> merkle_proof_arm(p)
          [] t = "MerkleUpdate" -> merkle_update_arm(p)
          [] t = "LibraryReference" -> library_reference_arm(p)
          [] OTHER -> IF descriptor_is_exotic(p.d1) THEN TypeErr
                      ELSE TypeOk("Ordinary", p.children_mask, level + 1)

\* The (cell_type, computed_level_mask) match of compute_hashes.
classify(p) ==
    LET level_mask == descriptor_level_mask(p.d1)
        level == LevelMask_level(level_mask)
    IN  IF descriptor_is_exotic(p.d1)
        THEN IF p.data = <<>> THEN TypeErr
             ELSE LET t == CellType_from_byte_exotic(p.data[1])
                  IN  CASE t = "PrunedBranch" -> pruned_branch_arm(p, level_mask, level)
                        [] t = "MerkleProof" -> merkle_proof_arm(p)
                        [] t = "MerkleUpdate" -> merkle_update_arm(p)
                        [] t = "LibraryReference" -> library_reference_arm(p)
                        [] OTHER -> TypeErr
        ELSE TypeOk("Ordinary", p.children_mask, level + 1)

\* A first hashed byte that is the descriptor byte as declared.
rewrite_d1_keep(d1, mask) == d1

\* descriptor.d1 with the level mask bits rewritten and the store-hashes bit cleared.
rewrite_d1(d1, mask) == (d1 % 16) + 32 * mask

\* The copies of level 0, when it runs to its end, write two descriptor
\* bytes, the data and a depth and a hash for each child: past the
\* MAX_CELL_SIZE bytes of data_to_hash or not.  The higher levels write a
\* hash in the place of the data and stay within the buffer.
overruns(p) ==
    2 + Len(p.data) + (DEPTH_BITS \div 8 + HASH_BITS \div 8) * Len(p.references) > MAX_CELL_SIZE

\* A level that returns DepthOverflow has by then copied the two descriptor
\* bytes, the data (or the previous hash) and two bytes for each child
\* before the first one whose depth overflows: past the buffer or not.
overruns_before_return(p, level, level_offset) ==
    LET deep == {i \in 1..Len(p.references) :
                    cell_depth(p.references[i], level + level_offset) + 1 > U16_MAX}
        first == CHOOSE i \in deep : \A j \in deep : i <= j
    IN  2 + (IF level = 0 THEN Len(p.data) ELSE HASH_BITS \div 8) + 2 * (first - 1)
            > MAX_CELL_SIZE

\* A buffer that holds for each child its depth and its hash side by side.
data_to_hash_interleaved(p, level, level_offset, is_pruned, hashes) ==
    LET level_mask == descriptor_level_mask(p.d1)
        hmask == IF is_pruned THEN level_mask ELSE LevelMask_from_level(level)
        refs == p.references
        body == IF level = 0 THEN ByteItems(p.data)
                ELSE <<HashItem(Last(hashes)[1])>>
        kids == [i \in 1..(3 * Len(refs)) |->
                    LET c == refs[(i + 2) \div 3]
                        d == cell_depth(c, level + level_offset)
                    IN  CASE i % 3 = 1 -> ByteItem(d \div 256)
                          [] i % 3 = 2 -> ByteItem(d % 256)
                          [] OTHER -> HashItem(cell_hash(c, level + level_offset))]
    IN  IF overruns(p) THEN AnyBytes
        ELSE {<<ByteItem(rewrite_d1(p.d1, hmask)), ByteItem(p.d2)>> \o body \o kids}

\* A buffer that keeps the data in front of the previous hash at levels above 0.
data_to_hash_keep_data(p, level, level_offset, is_pruned, hashes) ==
    LET level_mask == descriptor_level_mask(p.d1)
        hmask == IF is_pruned THEN level_mask ELSE LevelMask_from_level(level)
        refs == p.references
        body == IF level = 0 THEN ByteItems(p.data)
                ELSE ByteItems(p.data) \o <<HashItem(Last(hashes)[1])>>
        depths == [i \in 1..(2 * Len(refs)) |->
                      LET d == cell_depth(refs[(i + 1) \div 2], level + level_offset)
                      IN  ByteItem(IF i % 2 = 1 THEN d \div 256 ELSE d % 256)]
        kids == [i \in 1..Len(refs) |-> HashItem(cell_hash(refs[i], level + level_offset))]
    IN  IF overruns(p) THEN AnyBytes
        ELSE {<<ByteItem(rewrite_d1(p.d1, hmask)), ByteItem(p.d2)>> \o body \o depths \o kids}

\* The byte strings the digest of one level can be taken of: the 2 +
\* hashed_len bytes at the head of data_to_hash.  When the copies of the
\* call stay within the MAX_CELL_SIZE bytes of the buffer these are the two
\* descriptor bytes, the data or the hash of the level before, the depths
\* of the children and their hashes.  After a copy past the buffer neither
\* the bytes nor their number is defined.
data_to_hash(p, level, level_offset, is_pruned, hashes) ==
    LET level_mask == descriptor_level_mask(p.d1)
        hmask == IF is_pruned THEN level_mask ELSE LevelMask_from_level(level)
        refs == p.references
        body == IF level = 0 THEN ByteItems(p.data)
                ELSE <<HashItem(Last(hashes)[1])>>
        depths == [i \in 1..(2 * Len(refs)) |->
                      LET d == cell_depth(refs[(i + 1) \div 2], level + level_offset)
                      IN  ByteItem(IF i % 2 = 1 THEN d \div 256 ELSE d % 256)]
        kids == [i \in 1..Len(refs) |-> HashItem(cell_hash(refs[i], level + level_offset))]
    IN  IF overruns(p) THEN AnyBytes
        ELSE {<<ByteItem(rewrite_d1(p.d1, hmask)), ByteItem(p.d2)>> \o body \o depths \o kids}

\* A depth that is taken from the last child alone.
level_depth_last(refs, lvl) ==
    IF refs = <<>> THEN 0 ELSE cell_depth(refs[Len(refs)], lvl) + 1

\* The depth of one level: the maximum of child_depth + 1, or 0 without children.
RECURSIVE level_depth(_, _)
level_depth(refs, lvl) ==
    IF refs = <<>> THEN 0
    ELSE Max(cell_depth(refs[1], lvl) + 1, level_depth(Tail(refs), lvl))

\* The pair of one level whose copies stayed within the buffer.
level_pair(inputs, depth) == <<Sha256(CHOOSE input \in inputs : TRUE), depth>>

\* A loop over the levels 0..3 that skips none of them.
RECURSIVE hash_levels_all(_, _, _, _, _)
hash_levels_all(p, level, level_offset, is_pruned, hashes) ==
    IF level >= 4 THEN {HashOk(hashes)}
    ELSE IF overruns(p) THEN UndefinedEnds
    ELSE hash_levels_all(p, level + 1, level_offset, is_pruned,
            Append(hashes, level_pair(data_to_hash(p, level, 0, is_pruned, hashes),
                                      level_depth(p.references, 0))))

\* The loop over the levels 0..3, entered after the cell type match and the
\* comparison of the level masks: the ends it can have.  A level that is
\* not skipped returns DepthOverflow at the first child whose depth cannot
\* be incremented, and else appends its pair.  From the first copy past the
\* buffer on, which can only be one of level 0, nothing is defined.
RECURSIVE hash_levels(_, _, _, _, _)
hash_levels(p, level, level_offset, is_pruned, hashes) ==
    IF level >= 4 THEN {HashOk(hashes)}
    ELSE IF level # 0 /\ (is_pruned \/ ~LevelMask_contains(descriptor_level_mask(p.d1), level))
    THEN hash_levels(p, level + 1, level_offset, is_pruned, hashes)
    ELSE IF \E i \in 1..Len(p.references) :
                cell_depth(p.references[i], level + level_offset) + 1 > U16_MAX
    THEN IF overruns_before_return(p, level, level_offset) THEN UndefinedEnds
         ELSE {HashErr("DepthOverflow")}
    ELSE IF overruns(p) THEN UndefinedEnds
    ELSE hash_levels(p, level + 1, level_offset, is_pruned,
            Append(hashes,
                   level_pair(data_to_hash(p, level, level_offset, is_pruned, hashes),
                              level_depth(p.references, level + level_offset))))

\* compute_hashes without the comparison of the two level masks.
compute_hashes_any_mask(p) ==
    LET c == classify(p)
    IN  IF ~c.ok THEN {HashErr("InvalidCell")}
        ELSE hash_levels(p, 0, IF CellType_is_merkle(c.cell_type) THEN 1 ELSE 0,
                         CellType_is_pruned_branch(c.cell_type), <<>>)

\* CellParts::compute_hashes: the ends a call can have.
compute_hashes(p) ==
    LET c == classify(p)
    IN  IF ~c.ok THEN {HashErr("InvalidCell")}
        ELSE IF c.computed_level_mask # descriptor_level_mask(p.d1)
        THEN {HashErr("InvalidCell")}
        ELSE hash_levels(p, 0, IF CellType_is_merkle(c.cell_type) THEN 1 ELSE 0,
                         CellType_is_pruned_branch(c.cell_type), <<>>)

\* CellContext::finalize_cell of the empty context: validate, hash, and build the cell.
MkCell(p, hashes) ==
    [d1 |-> p.d1, d2 |-> p.d2, bit_len |-> p.bit_len, data |-> p.data,
     references |-> p.references, hashes |-> hashes]

NoCell ==
    [d1 |-> 0, d2 |-> 0, bit_len |-> 0, data |-> <<>>, references |-> <<>>, hashes |-> <<>>]

finalize_with(p, r) ==
    IF r.ok THEN [ok |-> TRUE, err |-> "", cell |-> MkCell(p, r.hashes), ub |-> r.ub]
    ELSE [ok |-> FALSE, err |-> r.err, cell |-> NoCell, ub |-> r.ub]

\* CellContext::finalize_cell: the ends a call can have, those of
\* compute_hashes with the cell built from the pairs.
finalize_cell(p) ==
    IF HashNoReturn \in compute_hashes(p)
    THEN [ok : {FALSE}, err : STRING, cell : {NoCell}, ub : {TRUE}]
         \cup [ok : {TRUE}, err : {""}, ub : {TRUE},
               cell : [d1 : {p.d1}, d2 : {p.d2}, bit_len : {p.bit_len}, data : {p.data},
                       references : {p.references},
                       hashes : Seq([k : {"sha256"}, in : AnyBytes] \X (0..U16_MAX))]]
    ELSE {finalize_with(p, r) : r \in compute_hashes(p)}

\* finalize_cell of parts that fit the buffer, as the builder and the
\* decoder make them: the one end of the call.
finalized(p) == CHOOSE r \in finalize_cell(p) : TRUE

(***************************************************************************)
(* Cell parts as the builder hands them over: the descriptor, the data     *)
(* bytes (with the completion tag when the bit length is not a multiple of *)
(* 8) and the children mask are consistent with each other.                *)
(***************************************************************************)
MkParts(level_mask, is_exotic, bit_len, data, refs) ==
    [bit_len |-> bit_len,
     d1 |-> compute_d1(level_mask, is_exotic, Len(refs)),
     d2 |-> compute_d2(bit_len),
     children_mask |-> children_mask_of(refs),
     references |-> refs,
     data |-> data]

\* Data of `bit_len` bits: a first byte, a second byte, a filler and the completion tag.
MkData(first, second, fill, bit_len) ==
    LET n == (bit_len + 7) \div 8
        tagged(b) == IF bit_len % 8 = 0 THEN b
                     ELSE LET keep == Pow2(8 - (bit_len % 8))
                          IN  (b \div keep) * keep + (keep \div 2)
    IN  [i \in 1..n |->
            LET raw == IF i = 1 THEN first ELSE IF i = 2 THEN second ELSE fill
            IN  IF i = n THEN tagged(raw) ELSE raw]

(***************************************************************************)
(* BocTag: the three magic numbers.                                        *)
(***************************************************************************)
BocTag_INDEXED == <<104, 255, 101, 243>>

BocTag_INDEXED_CRC32 == <<172, 195, 167, 40>>

BocTag_GENERIC == <<181, 238, 156, 114>>

BocTags == {"Indexed", "IndexedCrc32", "Generic"}

\* A match that looks at the first three bytes only.
BocTag_from_bytes_prefix(data) ==
    CASE SubSeq(data, 1, 3) = SubSeq(BocTag_GENERIC, 1, 3) -> "Generic"
      [] SubSeq(data, 1, 3) = SubSeq(BocTag_INDEXED_CRC32, 1, 3) -> "IndexedCrc32"
      [] SubSeq(data, 1, 3) = SubSeq(BocTag_INDEXED, 1, 3) -> "Indexed"
      [] OTHER -> "None"

BocTag_from_bytes(data) ==
    CASE data = BocTag_GENERIC -> "Generic"
      [] data = BocTag_INDEXED_CRC32 -> "IndexedCrc32"
      [] data = BocTag_INDEXED -> "Indexed"
      [] OTHER -> "None"

BocTag_to_bytes(tag) ==
    CASE tag = "Indexed" -> BocTag_INDEXED
      [] tag = "IndexedCrc32" -> BocTag_INDEXED_CRC32
      [] tag = "Generic" -> BocTag_GENERIC

(***************************************************************************)
(* The tag specification: to_bytes of a tag, or four arbitrary bytes (a    *)
(* magic number with one or two bytes replaced), then from_bytes.          *)
(***************************************************************************)
TagIdle ==
    /\ tag_val = "unset"
    /\ tag_in = <<0, 0, 0, 0>>
    /\ tag_match = "unset"

TagMagics == {BocTag_INDEXED, BocTag_INDEXED_CRC32, BocTag_GENERIC}

TagByteSamples == {0, 1, 40, 104, 114, 172, 181, 243, 255}

TagInputs ==
    {[m EXCEPT ![i] = b] : m \in TagMagics, i \in 1..4, b \in Byte}
    \cup {[m EXCEPT ![i] = b, ![j] = c] :
            m \in TagMagics, i \in 1..4, j \in 1..4, b \in TagByteSamples, c \in TagByteSamples}
    \cup {SubSeq(m, 1, 2) \o SubSeq(n, 3, 4) : m \in TagMagics, n \in TagMagics}

TagInit ==
    /\ tag_val = "unset"
    /\ tag_in \in TagInputs
    /\ tag_match = "unset"

TagToBytes(t) ==
    /\ tag_val = "unset"
    /\ tag_match = "unset"
    /\ tag_val' = t
    /\ tag_in' = BocTag_to_bytes(t)
    /\ UNCHANGED tag_match

TagFromBytes ==
    /\ tag_match = "unset"
    /\ tag_match' = BocTag_from_bytes(tag_in)
    /\ UNCHANGED <<tag_val, tag_in>>

(***************************************************************************)
(* CRC-32 (ISO-HDLC: reflected polynomial EDB88320, initial value and      *)
(* final xor FFFFFFFF), byte by byte over a table.  A 32-bit word is kept  *)
(* as its four bytes, least significant first.                             *)
(***************************************************************************)
NibbleXor == [a \in 0..15 |-> [b \in 0..15 |-> BitXor(a, b)]]

Xor8(a, b) == 16 * NibbleXor[a \div 16][b \div 16] + NibbleXor[a % 16][b % 16]

Xor32(x, y) == <<Xor8(x[1], y[1]), Xor8(x[2], y[2]), Xor8(x[3], y[3]), Xor8(x[4], y[4])>>

CRC_POLY == <<32, 131, 184, 237>>

\* One step of the bitwise algorithm: shift right by one, xor the polynomial
\* in when the bit shifted out was set.
CrcShift(w) ==
    LET shifted == <<(w[1] \div 2) + 128 * (w[2] % 2),
                     (w[2] \div 2) + 128 * (w[3] % 2),
                     (w[3] \div 2) + 128 * (w[4] % 2),
                     w[4] \div 2>>
    IN  IF w[1] % 2 = 1 THEN Xor32(shifted, CRC_POLY) ELSE shifted

RECURSIVE CrcShifts(_, _)
CrcShifts(w, n) == IF n = 0 THEN w ELSE CrcShifts(CrcShift(w), n - 1)

CrcTable == [n \in 0..255 |-> CrcShifts(<<n, 0, 0, 0>>, 8)]

CrcUpdate(crc, byte) ==
    Xor32(CrcTable[Xor8(crc[1], byte)], <<crc[2], crc[3], crc[4], 0>>)

\* The bytes lo..hi folded into the register, the range split in halves and
\* the left half folded before the right one.
RECURSIVE CrcFold(_, _, _, _)
CrcFold(crc, bytes, lo, hi) ==
    IF lo > hi THEN crc
    ELSE IF lo = hi THEN CrcUpdate(crc, bytes[lo])
    ELSE LET mid == (lo + hi) \div 2
             left == CrcFold(crc, bytes, lo, mid)
         IN  IF left[1] >= 0 THEN CrcFold(left, bytes, mid + 1, hi) ELSE left

\* The checksum of `bytes`, as the four bytes appended to the buffer.
Crc32(bytes) ==
    Xor32(CrcFold(<<255, 255, 255, 255>>, bytes, 1, Len(bytes)), <<255, 255, 255, 255>>)

(***************************************************************************)
(* Big-endian integers of a given width.  A value that no buffer of the    *)
(* model can satisfy (2^24 and above) is read as 2^24.                     *)
(***************************************************************************)
RECURSIVE number_of_bytes_to_fit(_)
number_of_bytes_to_fit(n) == IF n < 256 THEN 1 ELSE 1 + number_of_bytes_to_fit(n \div 256)

RECURSIVE to_be_bytes(_, _)
to_be_bytes(n, width) ==
    IF width = 0 THEN <<>> ELSE to_be_bytes(n \div 256, width - 1) \o <<n % 256>>

HUGE == 16777216

RECURSIVE read_be_acc(_, _, _, _)
read_be_acc(b, pos, width, acc) ==
    IF width = 0 THEN acc
    ELSE IF acc >= 65536 THEN HUGE
    ELSE read_be_acc(b, pos + 1, width - 1, acc * 256 + b[pos])

\* The `width` bytes of `b` from the 1-based position `pos`.
read_be_uint(b, pos, width) == read_be_acc(b, pos, width, 0)

RECURSIVE Flatten(_)
Flatten(seqs) == IF seqs = <<>> THEN <<>> ELSE seqs[1] \o Flatten(Tail(seqs))

RECURSIVE SumLens(_, _)
SumLens(seqs, n) == IF n = 0 THEN 0 ELSE Len(seqs[n]) + SumLens(seqs, n - 1)

(***************************************************************************)
(* The encoder (ser::BocHeader): intern the cells reachable from the roots *)
(* by representation hash, number them, and write header, optional index,  *)
(* cell records and optional checksum.                                     *)
(***************************************************************************)
\* The position of the cell with hash `h` in `cells`, or 0.
RECURSIVE position_of(_, _, _)
position_of(cells, h, i) ==
    IF i > Len(cells) THEN 0
    ELSE IF repr_hash(cells[i]) = h THEN i
    ELSE position_of(cells, h, i + 1)

\* A traversal that interns nothing: every visit adds a record.
RECURSIVE visit_all_nodedup(_, _)
visit_all_nodedup(cells, acc) ==
    IF cells = <<>> THEN acc
    ELSE visit_all_nodedup(Tail(cells),
            Append(visit_all_nodedup(cells[1].references, acc), cells[1]))

\* Depth-first traversal, children before their parent, each hash once.
RECURSIVE visit_all(_, _)
visit_all(cells, acc) ==
    IF cells = <<>> THEN acc
    ELSE LET c == cells[1]
             here == IF position_of(acc, repr_hash(c), 1) # 0 THEN acc
                     ELSE Append(visit_all(c.references, acc), c)
         IN  visit_all(Tail(cells), here)

\* The index of a cell in the stream: the traversal order reversed.
cell_index(rev, h) == Len(rev) - position_of(rev, h, 1)

\* The cell written at stream index i.
RECURSIVE cell_at_index(_, _, _)
cell_at_index(rev, i, k) ==
    IF k > Len(rev) THEN NoCell
    ELSE IF cell_index(rev, repr_hash(rev[k])) = i /\ position_of(rev, repr_hash(rev[k]), 1) = k
    THEN rev[k]
    ELSE cell_at_index(rev, i, k + 1)

\* [d1][d2][data][refs: ref_count x ref_size]
cell_record(c, rev, ref_size) ==
    <<c.d1, c.d2>> \o c.data
        \o Flatten([k \in 1..Len(c.references) |->
                      to_be_bytes(cell_index(rev, repr_hash(c.references[k])), ref_size)])

\* The checksum appended to the buffer.
crc_trailer(bytes) == Crc32(bytes)

ser_BocHeader_new(root) ==
    [roots |-> <<root>>, tag |-> "Generic", has_index |-> FALSE, include_crc |-> FALSE]

ser_add_root(h, root) == [h EXCEPT !.roots = Append(h.roots, root)]

ser_with_crc(h, crc) == [h EXCEPT !.include_crc = crc]

ser_with_index(h, idx) == [h EXCEPT !.has_index = idx]

\* The indexed variants: one root, an index, and a checksum for IndexedCrc32.
ser_with_tag(h, tag) ==
    [h EXCEPT !.tag = tag,
              !.has_index = IF tag = "Generic" THEN h.has_index ELSE TRUE,
              !.include_crc = IF tag = "Generic" THEN h.include_crc ELSE tag = "IndexedCrc32"]

\* The records of the cells in the order of their indices.
ser_records(rev, ref_size) ==
    [i \in 1..Len(rev) |-> cell_record(cell_at_index(rev, i - 1, 1), rev, ref_size)]

ser_flags(h, ref_size) ==
    IF h.tag = "Generic"
    THEN ref_size + (IF h.has_index THEN 128 ELSE 0) + (IF h.include_crc THEN 64 ELSE 0)
    ELSE ref_size

ser_root_list(h, rev, ref_size) ==
    IF h.tag = "Generic"
    THEN Flatten([k \in 1..Len(h.roots) |->
                    to_be_bytes(cell_index(rev, repr_hash(h.roots[k])), ref_size)])
    ELSE <<>>

\* The cumulative offsets of the ends of the records.
ser_index(h, records, offset_size) ==
    IF h.has_index
    THEN Flatten([i \in 1..Len(records) |-> to_be_bytes(SumLens(records, i), offset_size)])
    ELSE <<>>

\* Header, root list, index and records.
ser_body(h, rev, ref_size, records, offset_size) ==
    BocTag_to_bytes(h.tag) \o <<ser_flags(h, ref_size), offset_size>>
        \o to_be_bytes(Len(rev), ref_size)
        \o to_be_bytes(Len(h.roots), ref_size)
        \o to_be_bytes(0, ref_size)
        \o to_be_bytes(SumLens(records, Len(records)), offset_size)
        \o ser_root_list(h, rev, ref_size)
        \o ser_index(h, records, offset_size)
        \o Flatten(records)

ser_with_trailer(h, body) == IF h.include_crc THEN body \o crc_trailer(body) ELSE body

ser_sized(h, rev, ref_size, records) ==
    ser_with_trailer(h,
        ser_body(h, rev, ref_size, records,
                 number_of_bytes_to_fit(SumLens(records, Len(records)))))

\* The buffer for the cells `rev`, the traversal of the roots.
ser_encode_cells(h, rev) ==
    ser_sized(h, rev, number_of_bytes_to_fit(Len(rev)),
              ser_records(rev, number_of_bytes_to_fit(Len(rev))))

ser_encode(h) == ser_encode_cells(h, visit_all(h.roots, <<>>))

Reverse(s) == [i \in 1..Len(s) |-> s[Len(s) + 1 - i]]

\* An encoder that numbers the cells in traversal order: children first.
Boc_encode_forward(cell) ==
    ser_encode_cells(ser_BocHeader_new(cell), Reverse(visit_all(<<cell>>, <<>>)))

\* An encoder that writes a record for every reference it meets.
Boc_encode_nodedup(cell) ==
    ser_encode_cells(ser_BocHeader_new(cell), visit_all_nodedup(<<cell>>, <<>>))

\* An encoder that always appends the checksum.
Boc_encode_with_crc(cell) == ser_encode(ser_with_crc(ser_BocHeader_new(cell), TRUE))

\* Boc::encode
Boc_encode(cell) == ser_encode(ser_BocHeader_new(cell))

\* A pair encoder that writes the second root first.
Boc_encode_pair_swapped(cell1, cell2) == ser_encode(ser_add_root(ser_BocHeader_new(cell2), cell1))

\* Boc::encode_pair
Boc_encode_pair(cell1, cell2) == ser_encode(ser_add_root(ser_BocHeader_new(cell1), cell2))

(***************************************************************************)
(* The decoder (de::BocHeader::decode): tag, flags and sizes, counts,      *)
(* total size, root list, optional index, cell stream, optional checksum.  *)
(* `cells_read` counts the cell records the decoder has read.              *)
(***************************************************************************)
HeaderErr(e, n) ==
    [ok |-> FALSE, err |-> e, roots |-> <<>>, ref_size |-> 0, cells |-> <<>>, cells_read |-> n]

HeaderOk(roots, ref_size, cells) ==
    [ok |-> TRUE, err |-> "", roots |-> roots, ref_size |-> ref_size, cells |-> cells,
     cells_read |-> Len(cells)]

Options(min_roots, max_roots) == [min_roots |-> min_roots, max_roots |-> max_roots]

\* A reference index is greater than the index of its owner and below cell_count.
ref_index_ok(r, own_index, cell_count) == r > own_index /\ r < cell_count

\* The root count is within the window of the caller.
root_count_ok(root_count, options) ==
    root_count >= options.min_roots /\ root_count <= options.max_roots

\* A reader that drops the references that are out of order and goes on.
read_cell_dropping(data, pos, own_index, cell_count, ref_size, limit) ==
    LET d1 == data[pos]
        d2 == data[pos + 1]
        data_len == descriptor_byte_len(d2)
        ref_count == descriptor_reference_count(d1)
        total_len == 2 + data_len + ref_count * ref_size
        refs == [k \in 1..ref_count |->
                   read_be_uint(data, pos + 2 + data_len + (k - 1) * ref_size, ref_size)]
    IN  IF pos + 1 > limit \/ ref_count > MAX_REF_COUNT \/ pos + total_len - 1 > limit
        THEN [ok |-> FALSE, err |-> "InvalidCell"]
        ELSE [ok |-> TRUE, err |-> "", len |-> total_len,
              cell |-> [d1 |-> d1, d2 |-> d2,
                        data |-> SubSeq(data, pos + 2, pos + 1 + data_len),
                        refs |-> SelectSeq(refs, LAMBDA r : ref_index_ok(r, own_index, cell_count))]]

\* One raw cell record read at `pos`, the 1-based position of its d1 byte.
read_cell(data, pos, own_index, cell_count, ref_size, limit) ==
    IF pos + 1 > limit THEN [ok |-> FALSE, err |-> "InvalidCell"]
    ELSE LET d1 == data[pos]
             d2 == data[pos + 1]
             data_len == descriptor_byte_len(d2)
             ref_count == descriptor_reference_count(d1)
             total_len == 2 + data_len + ref_count * ref_size
             refs == [k \in 1..ref_count |->
                        read_be_uint(data, pos + 2 + data_len + (k - 1) * ref_size, ref_size)]
         IN  IF ref_count > MAX_REF_COUNT THEN [ok |-> FALSE, err |-> "InvalidCell"]
             ELSE IF pos + total_len - 1 > limit THEN [ok |-> FALSE, err |-> "InvalidCell"]
             ELSE IF data_len > 0 /\ ~descriptor_is_aligned(d2)
                        /\ data[pos + 2 + data_len - 1] % 128 = 0
             THEN [ok |-> FALSE, err |-> "InvalidCell"]
             ELSE IF \E k \in 1..ref_count : ~ref_index_ok(refs[k], own_index, cell_count)
             THEN [ok |-> FALSE, err |-> "InvalidRef"]
             ELSE [ok |-> TRUE, err |-> "", len |-> total_len,
                   cell |-> [d1 |-> d1, d2 |-> d2,
                             data |-> SubSeq(data, pos + 2, pos + 1 + data_len),
                             refs |-> refs]]

\* The cell stream: cell_count records in order, from position `pos`.
RECURSIVE read_cells(_, _, _, _, _, _, _)
read_cells(data, pos, own_index, cell_count, ref_size, limit, acc) ==
    IF own_index = cell_count THEN [ok |-> TRUE, err |-> "", cells |-> acc, pos |-> pos]
    ELSE LET r == read_cell(data, pos, own_index, cell_count, ref_size, limit)
         IN  IF ~r.ok THEN [ok |-> FALSE, err |-> r.err, cells |-> acc, pos |-> pos]
             ELSE read_cells(data, pos + r.len, own_index + 1, cell_count, ref_size, limit,
                             Append(acc, r.cell))

\* The offsets of the index do not decrease.
index_ok(data, pos, cell_count, offset_size) ==
    \A i \in 1..(cell_count - 1) :
        read_be_uint(data, pos + (i - 1) * offset_size, offset_size)
            <= read_be_uint(data, pos + i * offset_size, offset_size)

\* A comparison that looks at the first byte of the checksum only.
check_crc_first_byte(data, end) == Crc32(SubSeq(data, 1, end))[1] = data[end + 1]

\* The four bytes after position `end` are the checksum of the bytes before them.
check_crc(data, end) == Crc32(SubSeq(data, 1, end)) = SubSeq(data, end + 1, end + 4)

\* Tag, flags and sizes: the first six bytes.
header_flags(data) ==
    [tag |-> BocTag_from_bytes(SubSeq(data, 1, 4)),
     has_index |-> IF SubSeq(data, 1, 4) = BocTag_GENERIC THEN Bit(data[5], 7) = 1 ELSE TRUE,
     has_crc |-> IF SubSeq(data, 1, 4) = BocTag_GENERIC THEN Bit(data[5], 6) = 1
                 ELSE SubSeq(data, 1, 4) = BocTag_INDEXED_CRC32,
     ref_size |-> IF SubSeq(data, 1, 4) = BocTag_GENERIC THEN data[5] % 8 ELSE data[5],
     offset_size |-> data[6]]

\* Counts, total size and the positions of the sections that follow them.
header_counts(data, f) ==
    [cell_count |-> read_be_uint(data, 7, f.ref_size),
     root_count |-> read_be_uint(data, 7 + f.ref_size, f.ref_size),
     absent_count |-> read_be_uint(data, 7 + 2 * f.ref_size, f.ref_size),
     total_cells_size |-> read_be_uint(data, 7 + 3 * f.ref_size, f.offset_size),
     roots_pos |-> 7 + 3 * f.ref_size + f.offset_size]

header_sections(f, c) ==
    [index_pos |-> c.roots_pos + (IF f.tag = "Generic" THEN c.root_count * f.ref_size ELSE 0),
     cells_pos |-> c.roots_pos + (IF f.tag = "Generic" THEN c.root_count * f.ref_size ELSE 0)
                     + (IF f.has_index THEN c.cell_count * f.offset_size ELSE 0),
     cells_end |-> c.roots_pos + (IF f.tag = "Generic" THEN c.root_count * f.ref_size ELSE 0)
                     + (IF f.has_index THEN c.cell_count * f.offset_size ELSE 0)
                     + c.total_cells_size - 1]

header_roots(data, f, c) ==
    IF f.tag = "Generic"
    THEN [k \in 1..c.root_count |->
            read_be_uint(data, c.roots_pos + (k - 1) * f.ref_size, f.ref_size)]
    ELSE <<0>>

\* Cell stream read: total size and checksum.
decode_checksum(data, f, p, roots, r) ==
    IF ~r.ok THEN HeaderErr(r.err, Len(r.cells) + 1)
    ELSE IF r.pos # p.cells_end + 1 THEN HeaderErr("InvalidHeader", Len(r.cells))
    ELSE IF f.has_crc /\ ~check_crc(data, p.cells_end)
    THEN HeaderErr("InvalidChecksum", Len(r.cells))
    ELSE HeaderOk(roots, f.ref_size, r.cells)

\* Root list and index, then the cell stream.
decode_cells(data, f, c, p, roots) ==
    IF Len(data) < p.cells_end + (IF f.has_crc THEN 4 ELSE 0)
    THEN HeaderErr("InvalidHeader", 0)
    ELSE IF \E k \in 1..Len(roots) : roots[k] >= c.cell_count THEN HeaderErr("InvalidHeader", 0)
    ELSE IF f.has_index /\ ~index_ok(data, p.index_pos, c.cell_count, f.offset_size)
    THEN HeaderErr("InvalidHeader", 0)
    ELSE decode_checksum(data, f, p, roots,
            read_cells(data, p.cells_pos, 0, c.cell_count, f.ref_size, p.cells_end, <<>>))

\* Counts: the root count against the window of the caller.
decode_counts(data, options, f, c) ==
    IF ~root_count_ok(c.root_count, options) THEN HeaderErr("UnexpectedRootCount", 0)
    ELSE IF f.tag # "Generic" /\ c.root_count # 1 THEN HeaderErr("UnexpectedRootCount", 0)
    ELSE IF c.absent_count > c.cell_count THEN HeaderErr("InvalidHeader", 0)
    ELSE IF c.cell_count >= HUGE \/ c.total_cells_size >= HUGE THEN HeaderErr("InvalidHeader", 0)
    ELSE decode_cells(data, f, c, header_sections(f, c), header_roots(data, f, c))

\* Tag, flags and sizes.
decode_flags(data, options, f) ==
    IF f.tag = "None" THEN HeaderErr("UnknownBocTag", 0)
    ELSE IF f.ref_size < 1 \/ f.ref_size > 4 THEN HeaderErr("InvalidHeader", 0)
    ELSE IF f.offset_size < 1 \/ f.offset_size > 8 THEN HeaderErr("InvalidHeader", 0)
    ELSE IF Len(data) < 6 + 3 * f.ref_size + f.offset_size THEN HeaderErr("UnexpectedEof", 0)
    ELSE decode_counts(data, options, f, header_counts(data, f))

de_BocHeader_decode(data, options) ==
    IF Len(data) < 6 THEN HeaderErr("UnexpectedEof", 0)
    ELSE decode_flags(data, options, header_flags(data))

(***************************************************************************)
(* BocHeader::finalize: the raw records from the highest index down to 0,  *)
(* each built from the cells built before it through finalize_cell.        *)
(* `finalize_calls` counts the calls of finalize_cell.                     *)
(***************************************************************************)
\* The bit length of the data of a raw record.
raw_bit_len(raw) ==
    LET byte_len == descriptor_byte_len(raw.d2)
    IN  IF descriptor_is_aligned(raw.d2) THEN byte_len * 8
        ELSE IF byte_len = 0 THEN 0
        ELSE byte_len * 8 - TrailingZeros8(raw.data[byte_len]) - 1

\* The parts of the raw record at position i, over the cells built so far.
raw_parts(raw, references) ==
    [bit_len |-> raw_bit_len(raw), d1 |-> raw.d1, d2 |-> raw.d2,
     children_mask |-> children_mask_of(references),
     references |-> references, data |-> raw.data]

raw_references(raw, cell_count, res) ==
    [k \in 1..Len(raw.refs) |-> res[cell_count - raw.refs[k]]]

\* A reference to a cell that is not built yet does not resolve.
raw_resolved(raw, cell_count, res) ==
    \A k \in 1..Len(raw.refs) : cell_count - raw.refs[k] \in 1..Len(res)

RECURSIVE finalize_from(_, _, _)

finalize_built(raws, i, res, built) ==
    IF ~built.ok
    THEN [ok |-> FALSE, err |-> "InvalidCell", cells |-> <<>>, finalize_calls |-> Len(res) + 1]
    ELSE finalize_from(raws, i - 1, Append(res, built.cell))

\* `res` holds the cells built so far, the highest index first.
finalize_from(raws, i, res) ==
    IF i = 0 THEN [ok |-> TRUE, err |-> "", cells |-> res, finalize_calls |-> Len(res)]
    ELSE IF ~raw_resolved(raws[i], Len(raws), res)
    THEN [ok |-> FALSE, err |-> "InvalidRef", cells |-> <<>>, finalize_calls |-> Len(res)]
    ELSE finalize_built(raws, i, res,
            finalized(raw_parts(raws[i], raw_references(raws[i], Len(raws), res))))

de_finalize(header) == finalize_from(header.cells, Len(header.cells), <<>>)

\* ProcessedCells::get: the cell of stream index `index`, if it is in the table.
ProcessedCells_has(cells, index) == index >= 0 /\ index < Len(cells.cells)

ProcessedCells_get(cells, index) == cells.cells[Len(cells.cells) - index]

(***************************************************************************)
(* Boc::decode_ext and Boc::decode_pair_ext.  A result carries the root    *)
(* cells returned, or the error, and the two counters of the decode.       *)
(***************************************************************************)
DecodeOk(cells, cells_read, finalize_calls) ==
    [ok |-> TRUE, err |-> "", cells |-> cells, cells_read |-> cells_read,
     finalize_calls |-> finalize_calls]

DecodeErr(e, cells_read, finalize_calls) ==
    [ok |-> FALSE, err |-> e, cells |-> <<>>, cells_read |-> cells_read,
     finalize_calls |-> finalize_calls]

\* decode_ext, lines 187-189: the cell table, and the root looked up in it.
decode_ext_cells(header, cells) ==
    IF ~cells.ok
    THEN DecodeErr(cells.err, header.cells_read, cells.finalize_calls)
    ELSE IF ProcessedCells_has(cells, header.roots[1])
    THEN DecodeOk(<<ProcessedCells_get(cells, header.roots[1])>>, header.cells_read,
                  cells.finalize_calls)
    ELSE DecodeErr("RootCellNotFound", header.cells_read, cells.finalize_calls)

\* decode_ext, lines 184-191: the first root of the header, then finalize.
decode_ext_roots(header) ==
    IF Len(header.roots) >= 1
    THEN decode_ext_cells(header, de_finalize(header))
    ELSE DecodeErr("RootCellNotFound", header.cells_read, 0)

\* decode_ext, lines 176-182: an error of the header decode is returned as it is.
decode_ext_header(header) ==
    IF ~header.ok THEN DecodeErr(header.err, header.cells_read, 0)
    ELSE decode_ext_roots(header)

\* A decode_ext that asks for one or two roots.
decode_ext_two_roots(data) == decode_ext_header(de_BocHeader_decode(data, Options(1, 2)))

decode_ext(data) == decode_ext_header(de_BocHeader_decode(data, Options(1, 1)))

\* A pair decode that returns the roots it finds, even if only one.
decode_pair_ext_cells_subset(header, cells) ==
    IF ~cells.ok
    THEN DecodeErr(cells.err, header.cells_read, cells.finalize_calls)
    ELSE DecodeOk([k \in 1..Len(SelectSeq(header.roots, LAMBDA r : ProcessedCells_has(cells, r))) |->
                     ProcessedCells_get(cells,
                        SelectSeq(header.roots, LAMBDA r : ProcessedCells_has(cells, r))[k])],
                  header.cells_read, cells.finalize_calls)

\* decode_pair_ext, lines 211-214: the cell table, and both roots looked up in it.
decode_pair_ext_cells(header, cells) ==
    IF ~cells.ok
    THEN DecodeErr(cells.err, header.cells_read, cells.finalize_calls)
    ELSE IF ProcessedCells_has(cells, header.roots[1]) /\ ProcessedCells_has(cells, header.roots[2])
    THEN DecodeOk(<<ProcessedCells_get(cells, header.roots[1]),
                    ProcessedCells_get(cells, header.roots[2])>>,
                  header.cells_read, cells.finalize_calls)
    ELSE DecodeErr("RootCellNotFound", header.cells_read, cells.finalize_calls)

\* decode_pair_ext, lines 209-217: the first two roots of the header, then finalize.
decode_pair_ext_roots(header) ==
    IF Len(header.roots) >= 2
    THEN decode_pair_ext_cells(header, de_finalize(header))
    ELSE DecodeErr("RootCellNotFound", header.cells_read, 0)

\* decode_pair_ext, lines 201-207: an error of the header decode is returned as it is.
decode_pair_ext_header(header) ==
    IF ~header.ok THEN DecodeErr(header.err, header.cells_read, 0)
    ELSE decode_pair_ext_roots(header)

decode_pair_ext(data) == decode_pair_ext_header(de_BocHeader_decode(data, Options(2, 2)))

(***************************************************************************)
(* The state of the container part when nothing is encoded or decoded.     *)
(***************************************************************************)
NoSrc ==
    [roots |-> <<>>, tag |-> "Generic", has_index |-> FALSE, include_crc |-> FALSE,
     flip |-> 0, orig |-> <<>>, prev_len |-> 0, prev_plain |-> FALSE, given |-> <<>>]

NoDec == [mode |-> "none"] @@ DecodeErr("", 0, 0)

BocIdle ==
    /\ arena = {}
    /\ buf = <<>>
    /\ src = NoSrc
    /\ dec = NoDec

(***************************************************************************)
(* The state of the integer part and of the load requests when unused.     *)
(***************************************************************************)
NoNum == [op |-> "none"]

NoAct == [op |-> "none"]

NoAddr == [op |-> "none"]

ModelIdle ==
    /\ act = NoAct
    /\ addr = NoAddr

NumIdle ==
    /\ num = NoNum
    /\ loads = <<>>
    /\ ModelIdle

(***************************************************************************)
(* The inputs of the hashing specification: children that are already      *)
(* finalized, and the parts of a cell under construction.                  *)
(***************************************************************************)
\* Data of a pruned branch of `level` levels: type, mask, hashes, depths.
PrunedData(mask, level, hfill, dhi, dlo) ==
    <<TAG_PRUNED_BRANCH, mask>> \o Repeat(hfill, 32 * level)
        \o [i \in 1..(2 * level) |-> IF i % 2 = 1 THEN dhi ELSE dlo]

PrunedParts(mask, hfill, dhi, dlo) ==
    LET level == LevelMask_level(mask)
    IN  MkParts(mask, TRUE, 16 + level * (HASH_BITS + DEPTH_BITS),
                PrunedData(mask, level, hfill, dhi, dlo), <<>>)

LeafCell == finalized(MkParts(0, FALSE, 0, <<>>, <<>>)).cell

PrunedCell == finalized(PrunedParts(1, 17, 0, 7)).cell

DeepPrunedCell == finalized(PrunedParts(1, 34, 255, 255)).cell

\* Pruned branches of the masks 2 and 6: with the others they give a parent the
\* masks 1, 2, 3, 6 and 7, and a merkle cell a child mask that virtualizes to 1 or 3.
Pruned2Cell == finalized(PrunedParts(2, 51, 0, 9)).cell

DeepPruned2Cell == finalized(PrunedParts(2, 68, 255, 255)).cell

Pruned6Cell == finalized(PrunedParts(6, 85, 0, 11)).cell

HashChildren ==
    {LeafCell, PrunedCell, DeepPrunedCell, Pruned2Cell, DeepPruned2Cell, Pruned6Cell}

HashRefChoices == UNION {[1..n -> HashChildren] : n \in 0..MaxHashRefs}

\* 16 + L*272 for L = 0..3, the merkle and library lengths, and near misses.
HashBitLens == {0, 8, 16, 264, 280, 287, 288, 296, 552, 560, 832}

FirstBytes == {0, TAG_PRUNED_BRANCH, TAG_LIBRARY_REFERENCE, TAG_MERKLE_PROOF,
               TAG_MERKLE_UPDATE, 5}

\* Exotic inputs: every level mask, type byte and length, the second byte free
\* or equal to the level mask.
ExoticInput(p) ==
    \E lm \in 0..7, bl \in HashBitLens, refs \in HashRefChoices :
        \/ \E first \in FirstBytes, second \in {0, 1, 5, 255} :
              p = MkParts(lm, TRUE, bl, MkData(first, second, 17, bl), refs)
        \/ p = MkParts(lm, TRUE, bl, MkData(TAG_PRUNED_BRANCH, lm, 17, bl), refs)

\* Ordinary inputs: the exotic flag clear, whatever the first data byte is.
OrdinaryInput(p) ==
    \E lm \in 0..7, bl \in {0, 8, 287, 288}, first \in {TAG_PRUNED_BRANCH, 171},
       refs \in HashRefChoices :
        p = MkParts(lm, FALSE, bl, MkData(first, lm, 17, bl), refs)

\* Ordinary inputs whose descriptor has the store-hashes bit set.
StoreHashesInput(p) ==
    \E lm \in 0..7, bl \in {0, 8}, refs \in HashRefChoices :
        p = [MkParts(lm, FALSE, bl, MkData(171, lm, 17, bl), refs) EXCEPT !.d1 = @ + 16]

NoHashResult == [done |-> FALSE, ok |-> FALSE, err |-> "", hashes |-> <<>>, ub |-> FALSE]

(***************************************************************************)
(* The hashing specification: compute_hashes applied to one input.         *)
(***************************************************************************)
HashInit ==
    /\ ExoticInput(parts) \/ OrdinaryInput(parts) \/ StoreHashesInput(parts)
    /\ hres = NoHashResult
    /\ NumIdle
    /\ TagIdle
    /\ BocIdle

HashCompute ==
    /\ ~hres.done
    /\ \E r \in compute_hashes(parts) : hres' = [done |-> TRUE] @@ r
    /\ UNCHANGED parts
    /\ UNCHANGED tagVars
    /\ UNCHANGED bocVars
    /\ UNCHANGED numVars

HashNext == HashCompute

SpecHash == HashInit /\ [][HashNext]_vars

(***************************************************************************)
(* C10.  compute_hashes accepts an exotic cell whose first data byte is    *)
(* the PrunedBranch type only if its level is at least 1, it has no        *)
(* references, its bit length is 16 + level*(256+16) and its second data   *)
(* byte equals the level mask of the descriptor; it answers InvalidCell    *)
(* for every other such cell, and for no cell that meets the conditions.   *)
(***************************************************************************)
IsPrunedInput(p) ==
    descriptor_is_exotic(p.d1) /\ p.data # <<>> /\ p.data[1] = TAG_PRUNED_BRANCH

PrunedWellFormed(p) ==
    LET mask == p.d1 \div 32
        level == BitLength(mask)
    IN  /\ level >= 1
        /\ Len(p.references) = 0
        /\ p.bit_len = 16 + level * (256 + 16)
        /\ Len(p.data) >= 2
        /\ p.data[2] = mask

C10_PrunedBranchValidation ==
    (hres.done /\ IsPrunedInput(parts)) =>
        /\ hres.ok => PrunedWellFormed(parts)
        /\ ~PrunedWellFormed(parts) <=> (~hres.ok /\ hres.err = "InvalidCell")

C10_Witness ==
    /\ hres.done /\ hres.ok
    /\ IsPrunedInput(parts)
    /\ parts.d1 \div 32 = 5
    /\ Len(hres.hashes) = 1

(***************************************************************************)
(* C11.  compute_hashes accepts an exotic cell whose first data byte is    *)
(* MerkleProof only with 1 reference and 280 bits, MerkleUpdate only with  *)
(* 2 references and 552 bits, LibraryReference only with 0 references and  *)
(* 264 bits; with any other reference count or bit length the result is    *)
(* Err(InvalidCell).                                                       *)
(***************************************************************************)
ExoticTagOf(p) ==
    IF descriptor_is_exotic(p.d1) /\ p.data # <<>> THEN p.data[1] ELSE 0

RequiredRefs(tag) == CASE tag = 3 -> 1 [] tag = 4 -> 2 [] OTHER -> 0

RequiredBits(tag) == CASE tag = 3 -> 8 + 256 + 16 [] tag = 4 -> 8 + 2 * (256 + 16) [] OTHER -> 8 + 256

ShapeOk(p) ==
    /\ Len(p.references) = RequiredRefs(ExoticTagOf(p))
    /\ p.bit_len = RequiredBits(ExoticTagOf(p))

C11_MerkleLibraryShape ==
    (hres.done /\ ExoticTagOf(parts) \in {2, 3, 4}) =>
        /\ hres.ok => ShapeOk(parts)
        /\ ~ShapeOk(parts) => (~hres.ok /\ hres.err = "InvalidCell")

C11_Witness ==
    /\ hres.done /\ hres.ok
    /\ ExoticTagOf(parts) = 4
    /\ Len(parts.references) = 2
    /\ parts.bit_len = 552

(***************************************************************************)
(* C12.  compute_hashes succeeds only if the level mask of the descriptor  *)
(* equals the computed one: the OR of the children's masks for an ordinary *)
(* cell, that OR shifted right by one for MerkleProof and MerkleUpdate,    *)
(* the empty mask for a LibraryReference; a mismatch gives InvalidCell.    *)
(***************************************************************************)
RECURSIVE ChildrenOr(_)
ChildrenOr(refs) ==
    IF refs = <<>> THEN 0
    ELSE LET m == refs[1].d1 \div 32
             r == ChildrenOr(Tail(refs))
         IN  4 * (IF m \div 4 = 1 \/ r \div 4 = 1 THEN 1 ELSE 0)
             + 2 * (IF (m \div 2) % 2 = 1 \/ (r \div 2) % 2 = 1 THEN 1 ELSE 0)
             + (IF m % 2 = 1 \/ r % 2 = 1 THEN 1 ELSE 0)

KindOf(p) ==
    IF ~descriptor_is_exotic(p.d1) THEN "Ordinary"
    ELSE CASE ExoticTagOf(p) = 1 -> "PrunedBranch"
           [] ExoticTagOf(p) = 2 -> "LibraryReference"
           [] ExoticTagOf(p) = 3 -> "MerkleProof"
           [] ExoticTagOf(p) = 4 -> "MerkleUpdate"
           [] OTHER -> "Unknown"

ExpectedMask(p) ==
    CASE KindOf(p) = "Ordinary" -> ChildrenOr(p.references)
      [] KindOf(p) \in {"MerkleProof", "MerkleUpdate"} -> ChildrenOr(p.references) \div 2
      [] OTHER -> 0

C12_LevelMaskMatches ==
    (hres.done /\ KindOf(parts) \in {"Ordinary", "MerkleProof", "MerkleUpdate", "LibraryReference"}) =>
        /\ hres.ok => parts.d1 \div 32 = ExpectedMask(parts)
        /\ parts.d1 \div 32 # ExpectedMask(parts) => (~hres.ok /\ hres.err = "InvalidCell")

C12_Witness ==
    /\ hres.done /\ hres.ok
    /\ KindOf(parts) = "MerkleProof"
    /\ ChildrenOr(parts.references) = 2
    /\ parts.d1 \div 32 = 1

(***************************************************************************)
(* C13.  For every (hash, depth) pair returned for a level L, depth is 0   *)
(* without references and otherwise 1 + the maximum of the children's      *)
(* depths at level L + levelOffset; if a child's depth at such a level is  *)
(* 65535 the result is Err(DepthOverflow), never a wrapped value.          *)
(***************************************************************************)
LevelOffsetOf(p) == IF KindOf(p) \in {"MerkleProof", "MerkleUpdate"} THEN 1 ELSE 0

\* The levels that get a pair: level 0, and the levels of the mask unless pruned.
SigLevels(p) ==
    LET mask == p.d1 \div 32
        at(l) == IF (mask \div Pow2(l - 1)) % 2 = 1 THEN <<l>> ELSE <<>>
    IN  IF KindOf(p) = "PrunedBranch" THEN <<0>>
        ELSE <<0>> \o at(1) \o at(2) \o at(3)

ChildDepths(p, L) ==
    {cell_depth(p.references[i], L + LevelOffsetOf(p)) : i \in 1..Len(p.references)}

ExpectedDepth(p, L) ==
    IF p.references = <<>> THEN 0
    ELSE 1 + (CHOOSE d \in ChildDepths(p, L) : \A e \in ChildDepths(p, L) : e <= d)

DepthOverflows(p) ==
    \E i \in 1..Len(SigLevels(p)) : 65535 \in ChildDepths(p, SigLevels(p)[i])

C13_DepthOrOverflow ==
    (hres.done /\ hres.err # "InvalidCell") =>
        /\ DepthOverflows(parts) <=> (~hres.ok /\ hres.err = "DepthOverflow")
        /\ hres.ok =>
              /\ Len(hres.hashes) = Len(SigLevels(parts))
              /\ \A i \in 1..Len(hres.hashes) :
                    /\ hres.hashes[i][2] = ExpectedDepth(parts, SigLevels(parts)[i])
                    /\ hres.hashes[i][2] <= 65535

\* Two children of different depths at level 0, the deeper one first: the
\* depth of the pair is the depth of the deeper child plus one.
C13_Witness ==
    /\ hres.done /\ hres.ok
    /\ Len(parts.references) = 2
    /\ Len(hres.hashes) = 2
    /\ cell_depth(parts.references[1], 0) > cell_depth(parts.references[2], 0)
    /\ hres.hashes[1][2] = cell_depth(parts.references[1], 0) + 1
    /\ hres.hashes[2][2] # hres.hashes[1][2]

(***************************************************************************)
(* C14.  On success compute_hashes returns 1 to 4 (hash, depth) pairs in   *)
(* ascending level order: one pair for a pruned branch, and for any other  *)
(* cell one pair for level 0 plus one for each level set in the level mask *)
(* of the descriptor.                                                      *)
(***************************************************************************)
BitsSet(mask) == (mask % 2) + ((mask \div 2) % 2) + ((mask \div 4) % 2)

\* The level a pair was hashed for, read from the mask bits of its first hashed byte.
HashedLevel(pair) ==
    LET m == pair[1].in[1].b \div 32
    IN  CASE m = 0 -> 0 [] m = 1 -> 1 [] m = 3 -> 2 [] m = 7 -> 3 [] OTHER -> 4

C14_PairsPerLevel ==
    (hres.done /\ hres.ok) =>
        /\ Len(hres.hashes) \in 1..4
        /\ IF KindOf(parts) = "PrunedBranch"
           THEN Len(hres.hashes) = 1
           ELSE /\ Len(hres.hashes) = 1 + BitsSet(parts.d1 \div 32)
                /\ HashedLevel(hres.hashes[1]) = 0
                /\ \A i \in 2..Len(hres.hashes) :
                      /\ HashedLevel(hres.hashes[i]) \in 1..3
                      /\ HashedLevel(hres.hashes[i]) > HashedLevel(hres.hashes[i - 1])
                      /\ ((parts.d1 \div 32) \div Pow2(HashedLevel(hres.hashes[i]) - 1)) % 2 = 1

C14_Witness ==
    /\ hres.done /\ hres.ok
    /\ KindOf(parts) = "Ordinary"
    /\ parts.d1 \div 32 = 6
    /\ Len(hres.hashes) = 3
    /\ HashedLevel(hres.hashes[2]) = 2
    /\ HashedLevel(hres.hashes[3]) = 3

(***************************************************************************)
(* C15.  For a cell that is not a pruned branch, the hash of significant   *)
(* level L is SHA-256 of: the rewritten descriptor byte 1, descriptor byte *)
(* 2, the data bytes if L = 0 and else the hash of the previous            *)
(* significant level, every child's depth at L + levelOffset as 2          *)
(* big-endian bytes in reference order, every child's hash at              *)
(* L + levelOffset in reference order; levelOffset is 1 for MerkleProof    *)
(* and MerkleUpdate and 0 otherwise.                                       *)
(***************************************************************************)
RECURSIVE DepthBytes(_, _)
DepthBytes(refs, lvl) ==
    IF refs = <<>> THEN <<>>
    ELSE <<[b |-> cell_depth(refs[1], lvl) \div 256, h |-> <<>>],
           [b |-> cell_depth(refs[1], lvl) % 256, h |-> <<>>]>>
         \o DepthBytes(Tail(refs), lvl)

RECURSIVE ChildHashes(_, _)
ChildHashes(refs, lvl) ==
    IF refs = <<>> THEN <<>>
    ELSE <<[b |-> 256, h |-> <<cell_hash(refs[1], lvl)>>]>> \o ChildHashes(Tail(refs), lvl)

RECURSIVE DataBytes(_)
DataBytes(data) ==
    IF data = <<>> THEN <<>> ELSE <<[b |-> data[1], h |-> <<>>]>> \o DataBytes(Tail(data))

\* What follows the first hashed byte for the i-th pair.
ExpectedTail(p, hashes, i) ==
    LET lvl == SigLevels(p)[i] + LevelOffsetOf(p)
    IN  <<[b |-> p.d2, h |-> <<>>]>>
        \o (IF i = 1 THEN DataBytes(p.data) ELSE <<[b |-> 256, h |-> <<hashes[i - 1][1]>>]>>)
        \o DepthBytes(p.references, lvl)
        \o ChildHashes(p.references, lvl)

C15_HashInput ==
    (hres.done /\ hres.ok /\ KindOf(parts) # "PrunedBranch") =>
        \A i \in 1..Len(hres.hashes) :
            LET in == hres.hashes[i][1].in
            IN  /\ hres.hashes[i][1].k = "sha256"
                /\ in[1].h = <<>>
                /\ in[1].b % 16 = parts.d1 % 16
                /\ Tail(in) = ExpectedTail(parts, hres.hashes, i)

\* A MerkleUpdate with two different children was hashed at two levels, and
\* the hash of its first child at level 1 is not the one at level 0.
C15_Witness ==
    /\ hres.done /\ hres.ok
    /\ KindOf(parts) = "MerkleUpdate"
    /\ Len(hres.hashes) >= 2
    /\ parts.references[1] # parts.references[2]
    /\ cell_hash(parts.references[1], 1) # cell_hash(parts.references[1], 0)

(***************************************************************************)
(* C16.  For every significant level L of a cell that is not a pruned      *)
(* branch, the first hashed byte is descriptor byte 1 with the store-hashes*)
(* bit cleared and the level-mask bits rewritten to the mask of level L    *)
(* (2^L - 1), whatever level mask the descriptor declares; the single hash *)
(* of a pruned branch keeps the level mask the descriptor declares.        *)
(***************************************************************************)
\* d1 with the bits 5..7 replaced by `mask` and bit 4 cleared.
WithLevelBits(d1, mask) == (d1 % 16) + 32 * mask

C16_FirstHashedByte ==
    (hres.done /\ hres.ok) =>
        \A i \in 1..Len(hres.hashes) :
            LET first == hres.hashes[i][1].in[1]
                L == SigLevels(parts)[i]
            IN  /\ first.h = <<>>
                /\ IF KindOf(parts) = "PrunedBranch"
                   THEN first.b = WithLevelBits(parts.d1, parts.d1 \div 32)
                   ELSE first.b = WithLevelBits(parts.d1, Pow2(L) - 1)

C16_Witness ==
    /\ hres.done /\ hres.ok
    /\ KindOf(parts) = "Ordinary"
    /\ parts.d1 \div 32 = 2
    /\ (parts.d1 \div 16) % 2 = 1
    /\ Len(hres.hashes) = 2
    /\ hres.hashes[1][1].in[1].b = parts.d1 % 16
    /\ hres.hashes[2][1].in[1].b = (parts.d1 % 16) + 32 * 3

\* The statement as given: the mask of level L for every cell, pruned branches included.
C16_AnyCell ==
    (hres.done /\ hres.ok) =>
        \A i \in 1..Len(hres.hashes) :
            hres.hashes[i][1].in[1].b
                = WithLevelBits(parts.d1, Pow2(SigLevels(parts)[i]) - 1)

(***************************************************************************)
(* The tag specification.                                                  *)
(***************************************************************************)
TagSpecInit ==
    /\ TagInit
    /\ parts = MkParts(0, FALSE, 0, <<>>, <<>>)
    /\ hres = NoHashResult
    /\ NumIdle
    /\ BocIdle

TagNext ==
    \/ \E t \in BocTags : TagToBytes(t) /\ UNCHANGED <<hashVars, bocVars, numVars>>
    \/ TagFromBytes /\ UNCHANGED <<hashVars, bocVars, numVars>>

SpecTag == TagSpecInit /\ [][TagNext]_vars

(***************************************************************************)
(* C9.  to_bytes maps Generic to B5 EE 9C 72, IndexedCrc32 to AC C3 A7 28  *)
(* and Indexed to 68 FF 65 F3; from_bytes answers a tag exactly on these   *)
(* three values, the tag to_bytes maps there, and None on any other bytes. *)
(***************************************************************************)
C9_Magic(t) ==
    CASE t = "Generic" -> <<11 * 16 + 5, 14 * 16 + 14, 9 * 16 + 12, 7 * 16 + 2>>
      [] t = "IndexedCrc32" -> <<10 * 16 + 12, 12 * 16 + 3, 10 * 16 + 7, 2 * 16 + 8>>
      [] t = "Indexed" -> <<6 * 16 + 8, 15 * 16 + 15, 6 * 16 + 5, 15 * 16 + 3>>

C9_TagRoundTrip ==
    /\ tag_val # "unset" => tag_in = C9_Magic(tag_val)
    /\ (tag_val # "unset" /\ tag_match # "unset") => tag_match = tag_val
    /\ tag_match # "unset" =>
          /\ tag_match \in BocTags \cup {"None"}
          /\ \A t \in BocTags : tag_match = t <=> tag_in = C9_Magic(t)

C9_Witness ==
    /\ tag_val = "IndexedCrc32"
    /\ tag_match = "IndexedCrc32"

(***************************************************************************)
(* The container specification: cells are finalized into the arena, one    *)
(* root or a pair of roots is encoded, the buffer is decoded, and a        *)
(* decoded root is encoded again.                                          *)
(***************************************************************************)
MaxCells == 3

MaxRefs == 2

RefChoices(cells) == UNION {[1..n -> cells] : n \in 0..MaxRefs}

\* Valid parts over the cells of the arena: ordinary cells of 0 and 3 bits,
\* a pruned branch, and a merkle proof over one child.
BuildInputs(cells) ==
    {MkParts(children_mask_of(refs), FALSE, bl, MkData(171, 0, 0, bl), refs) :
        bl \in {0, 3}, refs \in RefChoices(cells)}
    \cup {PrunedParts(1, 17, 0, 7)}
    \cup {MkParts(LevelMask_virtualize(cell_level_mask(child), 1), TRUE, 280,
                  MkData(TAG_MERKLE_PROOF, 17, 17, 280), <<child>>) : child \in cells}

\* The options of ser::BocHeader for the given roots.
HeaderChoices(roots) ==
    {[roots |-> roots, tag |-> "Generic", has_index |-> idx, include_crc |-> crc] :
        idx \in BOOLEAN, crc \in BOOLEAN}
    \cup (IF Len(roots) = 1
          THEN {ser_with_tag(ser_BocHeader_new(roots[1]), t) : t \in {"Indexed", "IndexedCrc32"}}
          ELSE {})

SrcOf(h) ==
    [roots |-> h.roots, tag |-> h.tag, has_index |-> h.has_index,
     include_crc |-> h.include_crc, flip |-> 0, orig |-> <<>>, prev_len |-> 0,
     prev_plain |-> FALSE, given |-> <<>>]

IsPlain(x) == x.tag = "Generic" /\ ~x.has_index /\ ~x.include_crc

BocInit ==
    /\ BocIdle
    /\ TagIdle
    /\ parts = MkParts(0, FALSE, 0, <<>>, <<>>)
    /\ hres = NoHashResult
    /\ NumIdle

\* CellContext::finalize_cell on valid parts: the cell joins the arena.
Build(p) ==
    /\ buf = <<>>
    /\ Cardinality(arena) < MaxCells
    /\ finalized(p).ok
    /\ finalized(p).cell \notin arena
    /\ arena' = arena \cup {finalized(p).cell}
    /\ UNCHANGED <<buf, src, dec>>

\* Boc::encode
Encode(root) ==
    /\ buf = <<>>
    /\ buf' = Boc_encode(root)
    /\ src' = SrcOf(ser_BocHeader_new(root))
    /\ UNCHANGED <<arena, dec>>

\* Boc::encode_pair
EncodePair(cell1, cell2) ==
    /\ buf = <<>>
    /\ buf' = Boc_encode_pair(cell1, cell2)
    /\ src' = SrcOf(ser_add_root(ser_BocHeader_new(cell1), cell2))
    /\ UNCHANGED <<arena, dec>>

\* ser::BocHeader with options: index, checksum, indexed tags.
EncodeWith(h) ==
    /\ buf = <<>>
    /\ ~IsPlain(h)
    /\ buf' = ser_encode(h)
    /\ src' = SrcOf(h)
    /\ UNCHANGED <<arena, dec>>

\* Boc::decode
Decode ==
    /\ buf # <<>>
    /\ dec.mode = "none"
    /\ dec' = [mode |-> "single"] @@ decode_ext(buf)
    /\ UNCHANGED <<arena, buf, src>>

\* Boc::decode_pair
DecodePair ==
    /\ buf # <<>>
    /\ dec.mode = "none"
    /\ dec' = [mode |-> "pair"] @@ decode_pair_ext(buf)
    /\ UNCHANGED <<arena, buf, src>>

\* The decoded root is encoded again, with or without a checksum.
Reencode(crc) ==
    /\ dec.mode = "single"
    /\ dec.ok
    /\ src.prev_len = 0
    /\ buf' = ser_encode(ser_with_crc(ser_BocHeader_new(dec.cells[1]), crc))
    /\ src' = [SrcOf(ser_with_crc(ser_BocHeader_new(dec.cells[1]), crc))
                 EXCEPT !.prev_len = Len(buf), !.prev_plain = IsPlain(src)]
    /\ dec' = NoDec
    /\ UNCHANGED arena

Next ==
    \/ \E p \in BuildInputs(arena) : Build(p) /\ UNCHANGED <<hashVars, tagVars, numVars>>
    \/ \E root \in arena : Encode(root) /\ UNCHANGED <<hashVars, tagVars, numVars>>
    \/ \E cell1 \in arena, cell2 \in arena :
          EncodePair(cell1, cell2) /\ UNCHANGED <<hashVars, tagVars, numVars>>
    \/ \E cell1 \in arena, cell2 \in arena :
          \E h \in HeaderChoices(<<cell1>>) \cup HeaderChoices(<<cell1, cell2>>) :
              EncodeWith(h) /\ UNCHANGED <<hashVars, tagVars, numVars>>
    \/ Decode /\ UNCHANGED <<hashVars, tagVars, numVars>>
    \/ DecodePair /\ UNCHANGED <<hashVars, tagVars, numVars>>
    \/ \E crc \in BOOLEAN : Reencode(crc) /\ UNCHANGED <<hashVars, tagVars, numVars>>

Spec == BocInit /\ [][Next]_vars

(***************************************************************************)
(* C1.  A buffer written by Boc::encode decodes with Boc::decode to the    *)
(* root it was written from: the same descriptor, data and references, and *)
(* the same hash and depth at every level; a buffer written by             *)
(* Boc::encode_pair decodes with Boc::decode_pair to the two roots in the  *)
(* order they were given.                                                  *)
(***************************************************************************)
SameCell(c, d) ==
    /\ c = d
    /\ \A level \in 0..3 :
          /\ cell_hash(c, level) = cell_hash(d, level)
          /\ cell_depth(c, level) = cell_depth(d, level)

C1_RoundTrip ==
    (buf # <<>> /\ src.flip = 0 /\ IsPlain(src)) =>
        /\ (dec.mode = "single" /\ Len(src.roots) = 1) =>
              /\ dec.ok
              /\ Len(dec.cells) = 1
              /\ SameCell(dec.cells[1], src.roots[1])
        /\ (dec.mode = "pair" /\ Len(src.roots) = 2) =>
              /\ dec.ok
              /\ Len(dec.cells) = 2
              /\ SameCell(dec.cells[1], src.roots[1])
              /\ SameCell(dec.cells[2], src.roots[2])

\* A pair of different roots, the first with two children and a level mask
\* that is not empty, came back from decode_pair.
C1_Witness ==
    /\ src.flip = 0 /\ IsPlain(src) /\ src.prev_len = 0
    /\ dec.mode = "pair" /\ dec.ok
    /\ Len(src.roots) = 2
    /\ src.roots[1] # src.roots[2]
    /\ Len(src.roots[1].references) = 2
    /\ cell_level_mask(src.roots[1]) # 0
    /\ dec.cells = src.roots

(***************************************************************************)
(* C2.  In every buffer the encoder writes, read back field by field, each *)
(* reference index of each cell record is greater than the index of the    *)
(* record and less than cell_count.                                        *)
(***************************************************************************)
WrittenRefSize(b) == b[5] % 8

WrittenCellCount(b) == read_be_uint(b, 7, WrittenRefSize(b))

\* The position of the first cell record of a buffer written with options x.
WrittenCellsPos(b, x) ==
    7 + 3 * WrittenRefSize(b) + b[6]
      + (IF x.tag = "Generic" THEN Len(x.roots) * WrittenRefSize(b) ELSE 0)
      + (IF x.has_index THEN WrittenCellCount(b) * b[6] ELSE 0)

RECURSIVE WrittenRefsInOrder(_, _, _)
WrittenRefsInOrder(b, pos, own_index) ==
    IF own_index = WrittenCellCount(b) THEN TRUE
    ELSE LET ref_count == b[pos] % 8
             data_len == (b[pos + 1] \div 2) + (b[pos + 1] % 2)
             ref_size == WrittenRefSize(b)
             ref(k) == read_be_uint(b, pos + 2 + data_len + (k - 1) * ref_size, ref_size)
         IN  /\ \A k \in 1..ref_count : ref(k) > own_index /\ ref(k) < WrittenCellCount(b)
             /\ WrittenRefsInOrder(b, pos + 2 + data_len + ref_count * ref_size, own_index + 1)

C2_EncoderRefOrder ==
    (buf # <<>> /\ src.flip = 0 /\ dec.mode = "none") =>
        WrittenRefsInOrder(buf, WrittenCellsPos(buf, src), 0)

\* A pair was written whose first root refers twice to a cell that has a
\* child of its own: three records, one of them shared.
C2_Witness ==
    /\ buf # <<>> /\ src.flip = 0 /\ dec.mode = "none"
    /\ Len(src.roots) = 2
    /\ Len(src.roots[1].references) = 2
    /\ src.roots[1].references[1] = src.roots[1].references[2]
    /\ Len(src.roots[1].references[1].references) >= 1
    /\ WrittenCellCount(buf) = 3

(***************************************************************************)
(* C4.  The encoder writes one record per distinct representation hash     *)
(* reachable from the roots: cell_count is the number of these hashes, the *)
(* finalized records have pairwise different hashes, and two references of *)
(* a record to cells of the same hash carry the same index.                *)
(***************************************************************************)
RECURSIVE ReachableHashes(_)
ReachableHashes(cells) ==
    IF cells = <<>> THEN {}
    ELSE {repr_hash(cells[1])} \cup ReachableHashes(cells[1].references)
            \cup ReachableHashes(Tail(cells))

C4_Dedup ==
    (buf # <<>> /\ src.flip = 0 /\ dec.mode = "none") =>
        LET header == de_BocHeader_decode(buf, Options(1, 2))
            cells == de_finalize(header)
            n == Len(header.cells)
            built(index) == ProcessedCells_get(cells, index)
        IN  /\ header.ok /\ cells.ok
            /\ WrittenCellCount(buf) = Cardinality(ReachableHashes(src.roots))
            /\ n = WrittenCellCount(buf)
            /\ {repr_hash(built(i)) : i \in 0..(n - 1)} = ReachableHashes(src.roots)
            /\ \A i \in 1..n : \A k1, k2 \in 1..Len(header.cells[i].refs) :
                  repr_hash(built(header.cells[i].refs[k1]))
                        = repr_hash(built(header.cells[i].refs[k2]))
                    => header.cells[i].refs[k1] = header.cells[i].refs[k2]

\* One root whose two children are the same cell, itself a parent: the
\* buffer holds three records for five references.
C4_Witness ==
    /\ buf # <<>> /\ src.flip = 0 /\ dec.mode = "none"
    /\ Len(src.roots) = 1
    /\ Len(src.roots[1].references) = 2
    /\ src.roots[1].references[1] = src.roots[1].references[2]
    /\ Len(src.roots[1].references[1].references) = 2
    /\ WrittenCellCount(buf) = 3

(***************************************************************************)
(* C6.  With the checksum the encoder writes exactly four bytes more than  *)
(* without it, the buffer with the checksum decodes to the roots it was    *)
(* written from, and a root decoded from a buffer of Boc::encode, encoded  *)
(* again without checksum, gives a buffer of the length of the first one   *)
(* (and four bytes more with the checksum).                                *)
(***************************************************************************)
WithoutCrc(x) ==
    [roots |-> x.roots,
     tag |-> IF x.tag = "IndexedCrc32" THEN "Indexed" ELSE x.tag,
     has_index |-> x.has_index, include_crc |-> FALSE]

C6_CrcFourBytes ==
    (buf # <<>> /\ src.flip = 0) =>
        /\ (src.include_crc /\ dec.mode = "none") =>
              Len(buf) = Len(ser_encode(WithoutCrc(src))) + 4
        /\ (src.include_crc /\ dec.mode = "none" /\ IsPlain(WithoutCrc(src))) =>
              Len(buf) = 4 + (IF Len(src.roots) = 1 THEN Len(Boc_encode(src.roots[1]))
                              ELSE Len(Boc_encode_pair(src.roots[1], src.roots[2])))
        /\ (src.include_crc /\ dec.mode = "single" /\ Len(src.roots) = 1) =>
              dec.ok /\ dec.cells = src.roots
        /\ (src.include_crc /\ dec.mode = "pair" /\ Len(src.roots) = 2) =>
              dec.ok /\ dec.cells = src.roots
        /\ (src.prev_len > 0 /\ src.prev_plain) =>
              Len(buf) = src.prev_len + (IF src.include_crc THEN 4 ELSE 0)

\* A root with children was decoded from a buffer of Boc::encode, encoded
\* again with the checksum, and decoded from that buffer.
C6_Witness ==
    /\ src.flip = 0
    /\ src.prev_len > 0 /\ src.prev_plain
    /\ src.include_crc
    /\ Len(buf) = src.prev_len + 4
    /\ dec.mode = "single" /\ dec.ok
    /\ Len(src.roots[1].references) >= 1
    /\ dec.cells = src.roots

(***************************************************************************)
(* The tampering specification: a root or a pair out of three fixed cells  *)
(* is encoded, one byte of the buffer may be changed, and the buffer is    *)
(* decoded.  The wrappers are also run on a header whose root list is not  *)
(* the one of the buffer.                                                  *)
(***************************************************************************)
TamperLeaf == finalized(MkParts(0, FALSE, 3, MkData(171, 0, 0, 3), <<>>)).cell

TamperMid == finalized(MkParts(0, FALSE, 0, <<>>, <<TamperLeaf, TamperLeaf>>)).cell

TamperTop == finalized(MkParts(0, FALSE, 3, MkData(171, 0, 0, 3), <<TamperMid, TamperLeaf>>)).cell

TamperCells == {TamperLeaf, TamperMid, TamperTop}

\* The bits changed in a byte: single bits, pairs of neighbouring bits, and
\* all of them.
FlipMasks == {1, 2, 3, 8, 32, 48, 64, 128, 192, 255}

MaxRootIndex == 3

\* Root lists of a header: up to two indices, in the table or past it.
GivenRoots == UNION {[1..n -> 0..MaxRootIndex] : n \in 0..2}

TamperInit ==
    /\ arena = TamperCells
    /\ buf = <<>>
    /\ src = NoSrc
    /\ dec = NoDec
    /\ TagIdle
    /\ parts = MkParts(0, FALSE, 0, <<>>, <<>>)
    /\ hres = NoHashResult
    /\ NumIdle

\* One byte of the buffer is changed.
Flip(pos, mask) ==
    /\ buf # <<>>
    /\ src.flip = 0
    /\ dec.mode = "none"
    /\ pos \in 1..Len(buf)
    /\ buf' = [buf EXCEPT ![pos] = Xor8(@, mask)]
    /\ src' = [src EXCEPT !.flip = pos, !.orig = buf]
    /\ UNCHANGED <<arena, dec>>

\* The header of the buffer with another root list.
HeaderWithRoots(data, roots) ==
    [de_BocHeader_decode(data, Options(1, 2)) EXCEPT !.roots = roots]

\* decode_ext from the point where the header is decoded, on the given roots.
DecodeOnRoots(roots) ==
    /\ buf # <<>>
    /\ src.flip = 0
    /\ dec.mode = "none"
    /\ dec' = [mode |-> "single_on"] @@ decode_ext_roots(HeaderWithRoots(buf, roots))
    /\ src' = [src EXCEPT !.given = roots]
    /\ UNCHANGED <<arena, buf>>

\* decode_pair_ext from the point where the header is decoded, on the given roots.
DecodePairOnRoots(roots) ==
    /\ buf # <<>>
    /\ src.flip = 0
    /\ dec.mode = "none"
    /\ dec' = [mode |-> "pair_on"] @@ decode_pair_ext_roots(HeaderWithRoots(buf, roots))
    /\ src' = [src EXCEPT !.given = roots]
    /\ UNCHANGED <<arena, buf>>

TamperNext ==
    \/ \E root \in arena : Encode(root) /\ UNCHANGED <<hashVars, tagVars, numVars>>
    \/ \E cell1 \in arena, cell2 \in arena :
          EncodePair(cell1, cell2) /\ UNCHANGED <<hashVars, tagVars, numVars>>
    \/ \E cell1 \in arena, cell2 \in arena :
          \E h \in HeaderChoices(<<cell1>>) \cup HeaderChoices(<<cell1, cell2>>) :
              EncodeWith(h) /\ UNCHANGED <<hashVars, tagVars, numVars>>
    \/ \E pos \in 1..Len(buf), mask \in FlipMasks :
          Flip(pos, mask) /\ UNCHANGED <<hashVars, tagVars, numVars>>
    \/ Decode /\ UNCHANGED <<hashVars, tagVars, numVars>>
    \/ DecodePair /\ UNCHANGED <<hashVars, tagVars, numVars>>
    \/ \E roots \in GivenRoots : DecodeOnRoots(roots) /\ UNCHANGED <<hashVars, tagVars, numVars>>
    \/ \E roots \in GivenRoots : DecodePairOnRoots(roots) /\ UNCHANGED <<hashVars, tagVars, numVars>>

SpecTamper == TamperInit /\ [][TamperNext]_vars

\* The decode was asked for as many roots as the buffer was written with.
RootCountAsked ==
    \/ dec.mode = "single" /\ Len(src.roots) = 1
    \/ dec.mode = "pair" /\ Len(src.roots) = 2

(***************************************************************************)
(* C3.  When the changed byte of the buffer is a reference index and the   *)
(* index it now holds is not greater than the index of its record, or not  *)
(* less than cell_count, decode fails and returns no cell; asked for the   *)
(* root count of the buffer, it fails with InvalidRef.                     *)
(***************************************************************************)
\* The reference indices of a written buffer: <<position, index of the record>>.
RECURSIVE WrittenRefSlots(_, _, _)
WrittenRefSlots(b, pos, own_index) ==
    IF own_index = WrittenCellCount(b) THEN {}
    ELSE LET ref_count == b[pos] % 8
             data_len == (b[pos + 1] \div 2) + (b[pos + 1] % 2)
             ref_size == WrittenRefSize(b)
         IN  {<<pos + 2 + data_len + (k - 1) * ref_size, own_index>> : k \in 1..ref_count}
                \cup WrittenRefSlots(b, pos + 2 + data_len + ref_count * ref_size, own_index + 1)

\* The changed byte lies in a reference index, which is now out of order.
BadRefOrder ==
    /\ src.flip > 0
    /\ \E slot \in WrittenRefSlots(src.orig, WrittenCellsPos(src.orig, src), 0) :
          /\ src.flip >= slot[1]
          /\ src.flip < slot[1] + WrittenRefSize(src.orig)
          /\ \/ read_be_uint(buf, slot[1], WrittenRefSize(src.orig)) <= slot[2]
             \/ read_be_uint(buf, slot[1], WrittenRefSize(src.orig)) >= WrittenCellCount(src.orig)

C3_RejectsBadRefOrder ==
    (dec.mode \in {"single", "pair"} /\ BadRefOrder) =>
        /\ ~dec.ok
        /\ dec.cells = <<>>
        /\ RootCountAsked => dec.err = "InvalidRef"

\* A buffer without checksum whose only fault is a reference index equal to
\* the index of its own record was decoded.
C3_Witness ==
    /\ dec.mode = "single" /\ RootCountAsked
    /\ IsPlain(src)
    /\ BadRefOrder
    /\ \E slot \in WrittenRefSlots(src.orig, WrittenCellsPos(src.orig, src), 0) :
          src.flip = slot[1] /\ buf[slot[1]] = slot[2] /\ slot[2] > 0
    /\ dec.err = "InvalidRef"

\* Tag and sizes are valid and the counts lie within the buffer.
CountsReadable(b) ==
    /\ Len(b) >= 6
    /\ SubSeq(b, 1, 4) \in {BocTag_GENERIC, BocTag_INDEXED, BocTag_INDEXED_CRC32}
    /\ b[6] \in 1..8
    /\ (IF SubSeq(b, 1, 4) = BocTag_GENERIC THEN b[5] % 8 ELSE b[5]) \in 1..4
    /\ Len(b) >= 6 + 3 * (IF SubSeq(b, 1, 4) = BocTag_GENERIC THEN b[5] % 8 ELSE b[5]) + b[6]

(***************************************************************************)
(* C5.  One byte of a buffer written with the checksum is changed and the  *)
(* buffer is decoded for the root count it was written with.  Decode fails *)
(* with InvalidChecksum, having read every cell record and returning no    *)
(* cell, exactly when the changed buffer still asks for the checksum and   *)
(* would decode if its checksum bytes were right.  This is so for every    *)
(* change of a checksum byte and for every change of a data byte of a cell *)
(* record that does not clear the completion tag of the record.  A changed *)
(* tag byte gives UnknownBocTag.  A change that clears the checksum flag   *)
(* of a Generic buffer turns the check off: with no other bit changed the  *)
(* decode succeeds and returns the roots of the buffer.  Every other       *)
(* change makes decode fail with an error of the structure.                *)
(***************************************************************************)
\* The last position of the cell stream as the header of b declares it.
DeclaredCellsEnd(b) ==
    header_sections(header_flags(b), header_counts(b, header_flags(b))).cells_end

\* b with the four bytes after its cell stream replaced by the checksum of
\* the bytes before them.
ChecksumRepaired(b) ==
    SubSeq(b, 1, DeclaredCellsEnd(b)) \o Crc32(SubSeq(b, 1, DeclaredCellsEnd(b)))
        \o SubSeq(b, DeclaredCellsEnd(b) + 5, Len(b))

\* The window of root counts of the decode that was run.
AskedOptions == IF dec.mode = "pair" THEN Options(2, 2) ELSE Options(1, 1)

\* b asks for the checksum, and with the right checksum bytes it decodes.
ParsesToChecksum(b) ==
    /\ CountsReadable(b)
    /\ header_flags(b).has_crc
    /\ DeclaredCellsEnd(b) + 4 <= Len(b)
    /\ de_BocHeader_decode(ChecksumRepaired(b), AskedOptions).ok

\* b can be read up to its flags, and they do not ask for the checksum.
ChecksumOff(b) == CountsReadable(b) /\ ~header_flags(b).has_crc

\* The data bytes of the records of a written buffer: <<position, the byte
\* carries the completion tag>>.
RECURSIVE WrittenDataSlots(_, _, _)
WrittenDataSlots(b, pos, own_index) ==
    IF own_index = WrittenCellCount(b) THEN {}
    ELSE LET ref_count == b[pos] % 8
             data_len == (b[pos + 1] \div 2) + (b[pos + 1] % 2)
             ref_size == WrittenRefSize(b)
         IN  {<<pos + 1 + k, k = data_len /\ b[pos + 1] % 2 = 1>> : k \in 1..data_len}
                \cup WrittenDataSlots(b, pos + 2 + data_len + ref_count * ref_size, own_index + 1)

\* The changed byte is a data byte of a record, and if it carries the
\* completion tag, its low seven bits are not all zero after the change.
DataByteChanged ==
    \E slot \in WrittenDataSlots(src.orig, WrittenCellsPos(src.orig, src), 0) :
        src.flip = slot[1] /\ (slot[2] => buf[slot[1]] % 128 # 0)

\* The changed byte carried the completion tag of a record and lost it.
CompletionTagLost ==
    \E slot \in WrittenDataSlots(src.orig, WrittenCellsPos(src.orig, src), 0) :
        src.flip = slot[1] /\ slot[2] /\ buf[slot[1]] % 128 = 0

StructureErrors ==
    {"UnknownBocTag", "InvalidHeader", "UnexpectedEof", "UnexpectedRootCount",
     "InvalidCell", "InvalidRef"}

DeclaredRootCount(b) ==
    read_be_uint(b, 7 + (IF SubSeq(b, 1, 4) = BocTag_GENERIC THEN b[5] % 8 ELSE b[5]),
                 IF SubSeq(b, 1, 4) = BocTag_GENERIC THEN b[5] % 8 ELSE b[5])

RootCountRejected ==
    /\ ~dec.ok
    /\ dec.err = "UnexpectedRootCount"
    /\ dec.cells = <<>>
    /\ dec.cells_read = 0
    /\ dec.finalize_calls = 0

C7_RootCountBounds ==
    /\ (dec.mode = "single" /\ CountsReadable(buf) /\ DeclaredRootCount(buf) = 2)
          => RootCountRejected
    /\ (dec.mode = "pair" /\ CountsReadable(buf) /\ DeclaredRootCount(buf) # 2)
          => RootCountRejected

\* Boc::decode was run on an unchanged buffer of Boc::encode_pair.
C7_Witness ==
    /\ dec.mode = "single"
    /\ src.flip = 0 /\ IsPlain(src)
    /\ Len(src.roots) = 2
    /\ DeclaredRootCount(buf) = 2
    /\ RootCountRejected

(***************************************************************************)
(* C8.  decode_ext returns one cell or an error, decode_pair_ext two cells *)
(* or an error, and with an error no cell; an error of the header decode   *)
(* or of finalize is the error returned; and when the header decoded and   *)
(* finalize succeeded, the result is RootCellNotFound exactly when the     *)
(* root list is shorter than asked or a root asked for is not in the cell  *)
(* table.                                                                  *)
(***************************************************************************)
AllOrNothing(n) ==
    \/ dec.ok /\ dec.err = "" /\ Len(dec.cells) = n
    \/ ~dec.ok /\ dec.err # "" /\ dec.cells = <<>>

\* The header the wrapper worked on.
UsedHeader ==
    CASE dec.mode = "single" -> de_BocHeader_decode(buf, Options(1, 1))
      [] dec.mode = "pair" -> de_BocHeader_decode(buf, Options(2, 2))
      [] OTHER -> HeaderWithRoots(buf, src.given)

RootsAsked == IF dec.mode \in {"single", "single_on"} THEN 1 ELSE 2

RootMissing(header, cells) ==
    \/ Len(header.roots) < RootsAsked
    \/ \E k \in 1..RootsAsked : ~(header.roots[k] \in 0..(Len(cells.cells) - 1))

ErrorsPropagated(header, cells) ==
    /\ ~header.ok => (~dec.ok /\ dec.err = header.err)
    /\ (header.ok /\ Len(header.roots) >= RootsAsked /\ ~cells.ok) =>
          (~dec.ok /\ dec.err = cells.err)
    /\ (header.ok /\ cells.ok) =>
          (dec.err = "RootCellNotFound" <=> RootMissing(header, cells))
    /\ (header.ok /\ cells.ok /\ ~RootMissing(header, cells)) => dec.ok

C8_AllOrNothing ==
    (dec.mode # "none") =>
        /\ AllOrNothing(RootsAsked)
        /\ ErrorsPropagated(UsedHeader, de_finalize(UsedHeader))

\* decode_pair_ext worked on a header whose first root is in the cell table
\* and whose second root is not: RootCellNotFound and no cell.
C8_Witness ==
    /\ dec.mode = "pair_on"
    /\ Len(src.given) = 2
    /\ src.given[1] = 0
    /\ src.given[2] >= WrittenCellCount(buf)
    /\ ~dec.ok /\ dec.err = "RootCellNotFound" /\ dec.cells = <<>>


(***************************************************************************)
(* LoadMode: two flags in the low bits of a u8.                            *)
(***************************************************************************)
LoadMode_Noop == 0

LoadMode_UseGas == 1

LoadMode_Resolve == 2

LoadMode_Full == 3

LoadModes == {LoadMode_Noop, LoadMode_UseGas, LoadMode_Resolve, LoadMode_Full}

LoadMode_use_gas(self) == BitAnd(self, 1) # 0

\* A resolve() that tests the gas bit.
LoadMode_resolve_low_bit(self) == BitAnd(self, 1) # 0

LoadMode_resolve(self) == BitAnd(self, 2) # 0

(***************************************************************************)
(* The load specification: a context receives load requests, each with a   *)
(* mode, and asks the mode for its two flags.                              *)
(***************************************************************************)
MaxLoads == 4

LoadInit ==
    /\ NumIdle
    /\ TagIdle
    /\ BocIdle
    /\ parts = MkParts(0, FALSE, 0, <<>>, <<>>)
    /\ hres = NoHashResult

LoadCell(mode) ==
    /\ Len(loads) < MaxLoads
    /\ loads' = Append(loads, [mode |-> mode,
                               use_gas |-> LoadMode_use_gas(mode),
                               resolve |-> LoadMode_resolve(mode)])
    /\ UNCHANGED <<num, act, addr>>

LoadNext == \E mode \in LoadModes : LoadCell(mode) /\ UNCHANGED <<hashVars, tagVars, bocVars>>

SpecLoad == LoadInit /\ [][LoadNext]_vars

(***************************************************************************)
(* C17.  use_gas() is true exactly for UseGas and Full, resolve() exactly  *)
(* for Resolve and Full; the four modes realise the four combinations of   *)
(* (use_gas, resolve), each combination by exactly one mode.               *)
(***************************************************************************)
C17_LoadModeOrthogonal ==
    /\ \A i \in 1..Len(loads) :
          /\ loads[i].use_gas <=> loads[i].mode \in {1, 3}
          /\ loads[i].resolve <=> loads[i].mode \in {2, 3}
    /\ \A i, j \in 1..Len(loads) :
          (loads[i].use_gas = loads[j].use_gas /\ loads[i].resolve = loads[j].resolve)
              => loads[i].mode = loads[j].mode
    /\ {loads[i].mode : i \in 1..Len(loads)} = {0, 1, 2, 3} =>
          {<<loads[i].use_gas, loads[i].resolve>> : i \in 1..Len(loads)} = BOOLEAN \X BOOLEAN

C17_Witness ==
    /\ Len(loads) = 4
    /\ {loads[i].mode : i \in 1..4} = {0, 1, 2, 3}
    /\ {<<loads[i].use_gas, loads[i].resolve>> : i \in 1..4} = BOOLEAN \X BOOLEAN


(***************************************************************************)
(* Primitive unsigned integers (u16, u32, u64, u128).  A value is the      *)
(* tuple of its bytes, most significant first, as long as the type is wide,*)
(* so that every width up to 128 bits is computed exactly.                 *)
(***************************************************************************)
None == [some |-> FALSE, v |-> <<>>]

Some(v) == [some |-> TRUE, v |-> v]

\* The value `n` (below 2^24) as a primitive of `size` bytes.
uint_from(n, size) ==
    [i \in 1..size |->
        CASE i = size -> n % 256
          [] i = size - 1 -> (n \div 256) % 256
          [] i = size - 2 -> (n \div 65536) % 256
          [] OTHER -> 0]

uint_zero(size) == [i \in 1..size |-> 0]

uint_max(size) == [i \in 1..size |-> 255]

\* a <= b for two values of one width.
RECURSIVE uint_le(_, _)
uint_le(a, b) ==
    IF a = <<>> THEN TRUE
    ELSE IF a[1] # b[1] THEN a[1] < b[1]
    ELSE uint_le(Tail(a), Tail(b))

\* a + b + carry from byte i down to byte 1: the carry out, then the bytes.
RECURSIVE add_bytes(_, _, _, _, _)
add_bytes(a, b, i, carry, acc) ==
    IF i = 0 THEN <<carry>> \o acc
    ELSE add_bytes(a, b, i - 1, (a[i] + b[i] + carry) \div 256,
                   <<(a[i] + b[i] + carry) % 256>> \o acc)

\* a - b - borrow from byte i down to byte 1: the borrow out, then the bytes.
RECURSIVE sub_bytes(_, _, _, _, _)
sub_bytes(a, b, i, borrow, acc) ==
    IF i = 0 THEN <<borrow>> \o acc
    ELSE sub_bytes(a, b, i - 1, IF a[i] - b[i] - borrow < 0 THEN 1 ELSE 0,
                   <<(a[i] - b[i] - borrow + 256) % 256>> \o acc)

\* The sum of the byte products of one column (bytes counted from the right).
RECURSIVE mul_column(_, _, _, _)
mul_column(a, b, k, i) ==
    IF i > k \/ i >= Len(a) THEN 0
    ELSE (IF k - i < Len(b) THEN a[Len(a) - i] * b[Len(b) - (k - i)] ELSE 0)
         + mul_column(a, b, k, i + 1)

\* The full product, twice as wide as the operands.
RECURSIVE mul_bytes(_, _, _, _, _)
mul_bytes(a, b, k, carry, acc) ==
    IF k = 2 * Len(a) THEN acc
    ELSE mul_bytes(a, b, k + 1, (mul_column(a, b, k, 0) + carry) \div 256,
                   <<(mul_column(a, b, k, 0) + carry) % 256>> \o acc)

\* Bit i of a value, bit 1 being the most significant.
bit_at(a, i) == (a[((i - 1) \div 8) + 1] \div Pow2(7 - ((i - 1) % 8))) % 2

\* Long division, one bit of the dividend at a time.  The state is <<rem, q>>,
\* rem being one byte wider than the divisor.
div_bit(b, bit, st) ==
    IF uint_le(<<0>> \o b, Tail(add_bytes(st[1], st[1], Len(st[1]), bit, <<>>)))
    THEN <<Tail(sub_bytes(Tail(add_bytes(st[1], st[1], Len(st[1]), bit, <<>>)),
                          <<0>> \o b, Len(st[1]), 0, <<>>)),
           Tail(add_bytes(st[2], st[2], Len(st[2]), 1, <<>>))>>
    ELSE <<Tail(add_bytes(st[1], st[1], Len(st[1]), bit, <<>>)),
           Tail(add_bytes(st[2], st[2], Len(st[2]), 0, <<>>))>>

\* The eight bits of byte k of the dividend.
RECURSIVE div_byte(_, _, _, _, _)
div_byte(a, b, k, j, st) ==
    IF j > 8 THEN st
    ELSE div_byte(a, b, k, j + 1, div_bit(b, bit_at(a, 8 * (k - 1) + j), st))

RECURSIVE div_bytes(_, _, _, _)
div_bytes(a, b, k, st) ==
    IF st[1][1] < 0 \/ st[2][1] < 0 THEN st
    ELSE IF k > Len(a) THEN st
    ELSE div_bytes(a, b, k + 1, div_byte(a, b, k, 1, st))

\* The checked operations of the primitive integers.
prim_checked_add(a, b) ==
    IF add_bytes(a, b, Len(a), 0, <<>>)[1] # 0 THEN None
    ELSE Some(Tail(add_bytes(a, b, Len(a), 0, <<>>)))

prim_checked_sub(a, b) ==
    IF sub_bytes(a, b, Len(a), 0, <<>>)[1] # 0 THEN None
    ELSE Some(Tail(sub_bytes(a, b, Len(a), 0, <<>>)))

prim_checked_mul_of(a, product) ==
    IF SubSeq(product, 1, Len(a)) # uint_zero(Len(a)) THEN None
    ELSE Some(SubSeq(product, Len(a) + 1, 2 * Len(a)))

prim_checked_mul(a, b) == prim_checked_mul_of(a, mul_bytes(a, b, 0, 0, <<>>))

prim_checked_div(a, b) ==
    IF b = uint_zero(Len(b)) THEN None
    ELSE Some(div_bytes(a, b, 1, <<uint_zero(Len(a) + 1), uint_zero(Len(a))>>)[2])

\* u??::leading_zeros.
RECURSIVE leading_zeros(_)
leading_zeros(a) ==
    IF a = <<>> THEN 0
    ELSE IF a[1] = 0 THEN 8 + leading_zeros(Tail(a))
    ELSE 8 - BitLength(a[1])

\* value >> (8 * bytes) and the low bytes of a value, as truncating casts do.
uint_low(a, size) == SubSeq(a, Len(a) - size + 1, Len(a))

uint_widen(a, size) == uint_zero(size - Len(a)) \o a


(***************************************************************************)
(* The integer types of num/mod.rs.  A type is named by a record: the      *)
(* bytes of its inner primitive, and its value bits (fixed-length types)   *)
(* or its maximum number of value bytes (variable-length types).           *)
(***************************************************************************)
Uint9 == [name |-> "Uint9", kind |-> "small", size |-> 2, bits |-> 9, max_bytes |-> 0]

Uint12 == [name |-> "Uint12", kind |-> "small", size |-> 2, bits |-> 12, max_bytes |-> 0]

Uint15 == [name |-> "Uint15", kind |-> "small", size |-> 2, bits |-> 15, max_bytes |-> 0]

VarUint24 == [name |-> "VarUint24", kind |-> "var", size |-> 4, bits |-> 0, max_bytes |-> 3]

VarUint56 == [name |-> "VarUint56", kind |-> "var", size |-> 8, bits |-> 0, max_bytes |-> 7]

Tokens == [name |-> "Tokens", kind |-> "var", size |-> 16, bits |-> 0, max_bytes |-> 15]

VarUint248 == [name |-> "VarUint248", kind |-> "var248", size |-> 32, bits |-> 0, max_bytes |-> 31]

\* MAX: (1 << bits) - 1, (1 << (max_bytes * 8)) - 1, or from_words(u128::MAX >> 8, u128::MAX).
Ty_MAX(ty) ==
    IF ty.kind = "small" THEN uint_from(Pow2(ty.bits) - 1, ty.size)
    ELSE [i \in 1..ty.size |-> IF i <= ty.size - ty.max_bytes THEN 0 ELSE 255]

\* LEN_BITS: 8 - (max_bytes as u8).leading_zeros(); 5 for VarUint248.
Ty_LEN_BITS(ty) == 8 - leading_zeros(<<ty.max_bytes>>)

Ty_MAX_BITS(ty) == Ty_LEN_BITS(ty) + ty.max_bytes * 8

VarUint248_from_words(hi, lo) == hi \o lo

VarUint248_into_words(self) == <<SubSeq(self, 1, 16), SubSeq(self, 17, 32)>>

VarUint248_leading_zeros(self) ==
    IF VarUint248_into_words(self)[1] = uint_zero(16)
    THEN 128 + leading_zeros(VarUint248_into_words(self)[2])
    ELSE leading_zeros(VarUint248_into_words(self)[1])

is_valid(ty, self) ==
    IF ty.kind = "var248"
    THEN uint_le(VarUint248_into_words(self)[1], <<0>> \o [i \in 1..15 |-> 255])
    ELSE uint_le(self, Ty_MAX(ty))

\* The number of value bytes: size_of - leading_zeros / 8.
value_bytes(ty, self) ==
    IF ty.kind = "var248" THEN 32 - (VarUint248_leading_zeros(self) \div 8)
    ELSE ty.size - (leading_zeros(self) \div 8)

bit_len(ty, self) ==
    IF value_bytes(ty, self) > ty.max_bytes THEN None
    ELSE Some(Ty_LEN_BITS(ty) + value_bytes(ty, self) * 8)

\* `Some(value) if value <= Self::MAX.0 => Some(value), _ => None`.
checked_result(ty, r) ==
    IF r.some /\ uint_le(r.v, Ty_MAX(ty)) THEN Some(r.v) ELSE None

checked_add(ty, self, rhs) == checked_result(ty, prim_checked_add(self, rhs))

\* A checked_sub that refuses operands above MAX.
checked_sub_valid_only(ty, self, rhs) ==
    IF ~uint_le(self, Ty_MAX(ty)) \/ ~uint_le(rhs, Ty_MAX(ty)) THEN None
    ELSE checked_result(ty, prim_checked_sub(self, rhs))

checked_sub(ty, self, rhs) == checked_result(ty, prim_checked_sub(self, rhs))

checked_mul(ty, self, rhs) == checked_result(ty, prim_checked_mul(self, rhs))

checked_div(ty, self, rhs) == checked_result(ty, prim_checked_div(self, rhs))


(***************************************************************************)
(* CellBuilder and CellSlice, as far as the integers use them.  A builder  *)
(* is the sequence of the bits stored so far; a slice is a cell and the    *)
(* position of the next bit to load.                                       *)
(***************************************************************************)
CellBuilder_new == <<>>

StoreOk(builder) == [ok |-> TRUE, err |-> "", builder |-> builder]

StoreErr(e) == [ok |-> FALSE, err |-> e, builder |-> <<>>]

has_capacity(builder, bits, refs) == Len(builder) + bits <= MAX_BIT_LEN /\ refs <= MAX_REF_COUNT

\* The low `bits` bits of a value, most significant first.
low_bits(value, bits) == [i \in 1..bits |-> bit_at(value, 8 * Len(value) - bits + i)]

zero_bits(n) == [i \in 1..n |-> 0]

\* store_small_uint(value: u8, bits): zeros for the bits above 8, then the low bits.
store_small_uint(builder, value, bits) ==
    IF ~has_capacity(builder, bits, 0) THEN StoreErr("CellOverflow")
    ELSE StoreOk(builder \o zero_bits(Max(bits, 8) - 8) \o low_bits(<<value>>, Min(bits, 8)))

\* store_uint(value: u64, bits): zeros for the bits above 64, then the low bits.
store_uint(builder, value, bits) ==
    IF ~has_capacity(builder, bits, 0) THEN StoreErr("CellOverflow")
    ELSE StoreOk(builder \o zero_bits(Max(bits, 64) - 64) \o low_bits(value, Min(bits, 64)))

\* The data bytes of a builder: the bits, then the completion tag if not aligned.
builder_byte(builder, j) ==
    LET at(i) == IF i <= Len(builder) THEN builder[i]
                 ELSE IF i = Len(builder) + 1 THEN 1 ELSE 0
    IN  128 * at(8 * j - 7) + 64 * at(8 * j - 6) + 32 * at(8 * j - 5) + 16 * at(8 * j - 4)
        + 8 * at(8 * j - 3) + 4 * at(8 * j - 2) + 2 * at(8 * j - 1) + at(8 * j)

builder_data(builder) == [j \in 1..((Len(builder) + 7) \div 8) |-> builder_byte(builder, j)]

\* CellBuilder::build: the parts of an ordinary cell without references, finalized.
CellBuilder_build(builder) ==
    finalized(MkParts(0, FALSE, Len(builder), builder_data(builder), <<>>))

\* Cell::as_slice: the whole data of the cell, from bit 0 and reference 0.
as_slice(cell) == [cell |-> cell, pos |-> 0, rpos |-> 0]

LoadOk(v, slice) == [ok |-> TRUE, err |-> "", v |-> v, slice |-> slice]

LoadErr(e) == [ok |-> FALSE, err |-> e, v |-> <<>>, slice |-> as_slice(NoCell)]

\* Bit i (from 1) of the data of a cell.
cell_bit(cell, i) == bit_at(cell.data, i)

\* The `bits` bits from the position of the slice as the low bits of `size` bytes.
slice_bits(slice, bits, size) ==
    LET at(i) == IF i <= 8 * size - bits THEN 0
                 ELSE cell_bit(slice.cell, slice.pos + i - (8 * size - bits))
    IN  [j \in 1..size |->
            128 * at(8 * j - 7) + 64 * at(8 * j - 6) + 32 * at(8 * j - 5) + 16 * at(8 * j - 4)
            + 8 * at(8 * j - 3) + 4 * at(8 * j - 2) + 2 * at(8 * j - 1) + at(8 * j)]

\* load_small_uint(bits) -> u8.
load_small_uint(slice, bits) ==
    IF slice.pos + bits > slice.cell.bit_len THEN LoadErr("CellUnderflow")
    ELSE LoadOk(slice_bits(slice, bits, 1)[1], [slice EXCEPT !.pos = @ + bits])

\* load_uint(bits) -> u64.
load_uint(slice, bits) ==
    IF slice.pos + bits > slice.cell.bit_len THEN LoadErr("CellUnderflow")
    ELSE LoadOk(slice_bits(slice, bits, 8), [slice EXCEPT !.pos = @ + bits])


(***************************************************************************)
(* Store and Load of the integer types.                                    *)
(***************************************************************************)
\* store_u128: the bits above 64 from the high half, then the low half.
store_u128(builder, value, bits) ==
    IF bits >= 64
    THEN LET r == store_uint(builder, SubSeq(value, 1, 8), bits - 64)
         IN  IF ~r.ok THEN r ELSE store_uint(r.builder, uint_low(value, 8), 64)
    ELSE store_uint(builder, uint_low(value, 8), bits)

\* A load_u128 that leaves the high half where it was loaded.
load_u128_unshifted(slice, bytes) ==
    IF bytes >= 8 /\ bytes - 8 > 0
    THEN LET h == load_uint(slice, (bytes - 8) * 8)
         IN  IF ~h.ok THEN h
             ELSE LET l == load_uint(h.slice, 8 * 8)
                  IN  IF ~l.ok THEN l
                      ELSE LoadOk(uint_zero(8) \o [i \in 1..8 |-> IF h.v[i] > l.v[i] THEN h.v[i] ELSE l.v[i]],
                                  l.slice)
    ELSE LET l == load_uint(slice, bytes * 8)
         IN  IF ~l.ok THEN l ELSE LoadOk(uint_zero(8) \o l.v, l.slice)

\* load_u128: (load_uint(high_bytes * 8) << 64) | load_uint(bytes * 8).
load_u128(slice, bytes) ==
    IF bytes >= 8 /\ bytes - 8 > 0
    THEN LET h == load_uint(slice, (bytes - 8) * 8)
         IN  IF ~h.ok THEN h
             ELSE LET l == load_uint(h.slice, 8 * 8)
                  IN  IF ~l.ok THEN l ELSE LoadOk(h.v \o l.v, l.slice)
    ELSE LET l == load_uint(slice, bytes * 8)
         IN  IF ~l.ok THEN l ELSE LoadOk(uint_zero(8) \o l.v, l.slice)

\* impl_small_uints: Store and Load.
SmallUint_store_into_unchecked(ty, self, builder) ==
    store_uint(builder, uint_widen(self, 8), ty.bits)

SmallUint_store_into(ty, self, builder) ==
    IF ~is_valid(ty, self) THEN StoreErr("IntOverflow")
    ELSE store_uint(builder, uint_widen(self, 8), ty.bits)

SmallUint_load_from(ty, slice) ==
    LET r == load_uint(slice, ty.bits)
    IN  IF ~r.ok THEN r ELSE LoadOk(uint_low(r.v, 2), r.slice)

\* Store for VarUint24 and VarUint56: the number of bytes, then the bytes.
VarUint_store_into(ty, self, builder) ==
    IF value_bytes(ty, self) > ty.max_bytes
       \/ ~has_capacity(builder, Ty_LEN_BITS(ty) + value_bytes(ty, self) * 8, 0)
    THEN StoreErr("CellOverflow")
    ELSE LET r == store_small_uint(builder, value_bytes(ty, self), Ty_LEN_BITS(ty))
         IN  IF ~r.ok THEN r
             ELSE store_uint(r.builder, uint_widen(self, 8), value_bytes(ty, self) * 8)

VarUint_load_from(ty, slice) ==
    LET n == load_small_uint(slice, Ty_LEN_BITS(ty))
    IN  IF ~n.ok THEN n
        ELSE LET r == load_uint(n.slice, n.v * 8)
             IN  IF ~r.ok THEN r ELSE LoadOk(uint_low(r.v, ty.size), r.slice)

\* A Store for Tokens that always writes the 15 bytes of the longest value.
Tokens_store_into_fixed(self, builder) ==
    IF value_bytes(Tokens, self) > 15 \/ ~has_capacity(builder, Ty_LEN_BITS(Tokens) + 15 * 8, 0)
    THEN StoreErr("CellOverflow")
    ELSE LET r == store_small_uint(builder, 15, Ty_LEN_BITS(Tokens))
         IN  IF ~r.ok THEN r ELSE store_u128(r.builder, self, 15 * 8)

Tokens_store_into(self, builder) ==
    IF value_bytes(Tokens, self) > 15
       \/ ~has_capacity(builder, Ty_LEN_BITS(Tokens) + value_bytes(Tokens, self) * 8, 0)
    THEN StoreErr("CellOverflow")
    ELSE LET r == store_small_uint(builder, value_bytes(Tokens, self), Ty_LEN_BITS(Tokens))
         IN  IF ~r.ok THEN r ELSE store_u128(r.builder, self, value_bytes(Tokens, self) * 8)

Tokens_load_from(slice) ==
    LET n == load_small_uint(slice, Ty_LEN_BITS(Tokens))
    IN  IF ~n.ok THEN n ELSE load_u128(n.slice, n.v)

VarUint248_store_into(self, builder) ==
    LET bytes == value_bytes(VarUint248, self)
        bits == bytes * 8
        words == VarUint248_into_words(self)
    IN  IF bytes > 31 \/ ~has_capacity(builder, Ty_LEN_BITS(VarUint248) + bits, 0)
        THEN StoreErr("CellOverflow")
        ELSE LET r == store_small_uint(builder, bytes, Ty_LEN_BITS(VarUint248))
             IN  IF ~r.ok THEN r
                 ELSE IF bits >= 128
                 THEN LET h == store_u128(r.builder, words[1], bits - 128)
                      IN  IF ~h.ok THEN h ELSE store_u128(h.builder, words[2], 128)
                 ELSE store_u128(r.builder, words[2], bits)

VarUint248_load_from(slice) ==
    LET n == load_small_uint(slice, Ty_LEN_BITS(VarUint248))
    IN  IF ~n.ok THEN n
        ELSE IF n.v >= 16 /\ n.v - 16 > 0
        THEN LET h == load_u128(n.slice, n.v - 16)
             IN  IF ~h.ok THEN h
                 ELSE LET l == load_u128(h.slice, 16)
                      IN  IF ~l.ok THEN l
                          ELSE LoadOk(VarUint248_from_words(h.v, l.v), l.slice)
        ELSE LET l == load_u128(n.slice, n.v)
             IN  IF ~l.ok THEN l
                 ELSE LoadOk(VarUint248_from_words(uint_zero(16), l.v), l.slice)

store_into(ty, self, builder) ==
    CASE ty.kind = "small" -> SmallUint_store_into(ty, self, builder)
      [] ty.name = "Tokens" -> Tokens_store_into(self, builder)
      [] ty.name = "VarUint248" -> VarUint248_store_into(self, builder)
      [] OTHER -> VarUint_store_into(ty, self, builder)

load_from(ty, slice) ==
    CASE ty.kind = "small" -> SmallUint_load_from(ty, slice)
      [] ty.name = "Tokens" -> Tokens_load_from(slice)
      [] ty.name = "VarUint248" -> VarUint248_load_from(slice)
      [] OTHER -> VarUint_load_from(ty, slice)


(***************************************************************************)
(* The inputs of the integer specification.                                *)
(***************************************************************************)
NumTypes == {Uint9, Uint12, Uint15, VarUint24, VarUint56, Tokens, VarUint248}

CheckedTypes == NumTypes \ {VarUint248}

\* value >> k, bit by bit.
shr(a, k) ==
    LET at(i) == IF i - k < 1 THEN 0 ELSE bit_at(a, i - k)
    IN  [j \in 1..Len(a) |->
            128 * at(8 * j - 7) + 64 * at(8 * j - 6) + 32 * at(8 * j - 5) + 16 * at(8 * j - 4)
            + 8 * at(8 * j - 3) + 4 * at(8 * j - 2) + 2 * at(8 * j - 1) + at(8 * j)]

\* 1 << i.
one_shl(size, i) ==
    [j \in 1..size |-> IF j = size - (i \div 8) THEN Pow2(i % 8) ELSE 0]

\* The operands of the operation tests: 0, 1, 2, 10, and the values around MAX
\* and around the largest value of the primitive.
Operands(ty) ==
    LET n == ty.size
        max == Ty_MAX(ty)
        c(k) == uint_from(k, n)
        opt == {Some(c(0)), Some(c(1)), Some(c(2)), Some(c(10)),
                Some(max), Some(shr(max, 1)),
                prim_checked_sub(max, c(1)),
                prim_checked_add(max, c(1)),
                prim_checked_add(max, c(10)),
                prim_checked_mul(max, c(2)),
                prim_checked_mul(prim_checked_add(max, c(1)).v, c(2)),
                Some(uint_max(n)),
                prim_checked_sub(uint_max(n), c(1))}
    IN  {r.v : r \in {x \in opt : x.some}}

\* The byte pattern of the deserialization tests, as long as the type is wide.
PatternBytes ==
    <<171, 205, 239, 137, 171, 205, 239, 222, 173, 190, 239, 250, 250, 202, 254,
      171, 171, 205, 239, 137, 171, 205, 239, 222, 173, 190, 239, 250, 250, 202, 254>>

Pattern(ty) ==
    CASE ty.name = "Uint9" -> uint_from(307, 2)
      [] ty.name = "Uint12" -> uint_from(3891, 2)
      [] ty.name = "Uint15" -> uint_from(16179, 2)
      [] OTHER -> uint_zero(ty.size - ty.max_bytes) \o SubSeq(PatternBytes, 1, ty.max_bytes)

\* The values stored and loaded: the operands, every power of two of the
\* primitive, and the pattern shifted right by every number of bits.
StoredValues(ty) ==
    (IF ty.kind = "var248" THEN {} ELSE Operands(ty))
        \cup {uint_zero(ty.size), Ty_MAX(ty), uint_max(ty.size),
              prim_checked_add(Ty_MAX(ty), uint_from(1, ty.size)).v}
        \cup {one_shl(ty.size, i) : i \in 0..(8 * ty.size - 1)}
        \cup {shr(Pattern(ty), k) : k \in 0..(8 * ty.size)}

NumOps == {"checked_add", "checked_sub", "checked_mul", "checked_div"}

NumNew(ty, a, b) ==
    [op |-> "new", ty |-> ty, a |-> a, b |-> b, res |-> None,
     stored |-> StoreErr(""), cell |-> NoCell, len |-> None, loaded |-> LoadErr(""),
     via |-> "new", valid |-> None]

\* self.0 += rhs on the primitive: the sum, or on overflow of the primitive
\* a panic (overflow checks on) or the wrapped sum (overflow checks off).
ops_add(self, rhs) ==
    LET r == add_bytes(self, rhs, Len(self), 0, <<>>)
    IN  IF r[1] = 0 THEN {Some(Tail(r))} ELSE {None, Some(Tail(r))}


(***************************************************************************)
(* The integer specification: one value (and a second operand) of one      *)
(* type; a checked operation, or store_into an empty builder, build, and   *)
(* then bit_len or load_from the cell.                                     *)
(***************************************************************************)
NumInit ==
    /\ \E ty \in NumTypes :
          \/ /\ ty \in CheckedTypes
             /\ \E a \in Operands(ty), b \in Operands(ty) : num = NumNew(ty, a, b)
          \/ \E a \in StoredValues(ty) : num = NumNew(ty, a, uint_zero(ty.size))
    /\ loads = <<>>
    /\ ModelIdle
    /\ TagIdle
    /\ BocIdle
    /\ parts = MkParts(0, FALSE, 0, <<>>, <<>>)
    /\ hres = NoHashResult

CheckedAdd ==
    /\ num.op = "new" /\ num.ty \in CheckedTypes
    /\ num' = [num EXCEPT !.op = "checked_add", !.res = checked_add(num.ty, num.a, num.b)]

CheckedSub ==
    /\ num.op = "new" /\ num.ty \in CheckedTypes
    /\ num' = [num EXCEPT !.op = "checked_sub", !.res = checked_sub(num.ty, num.a, num.b)]

CheckedMul ==
    /\ num.op = "new" /\ num.ty \in CheckedTypes
    /\ num' = [num EXCEPT !.op = "checked_mul", !.res = checked_mul(num.ty, num.a, num.b)]

CheckedDiv ==
    /\ num.op = "new" /\ num.ty \in CheckedTypes
    /\ num' = [num EXCEPT !.op = "checked_div", !.res = checked_div(num.ty, num.a, num.b)]

\* value + rhs of the operation tests; the sum is the next value.
OpsAdd ==
    /\ num.op = "new" /\ num.via = "new" /\ num.ty \in CheckedTypes
    /\ \E r \in ops_add(num.a, num.b) :
          num' = IF r.some
                 THEN [num EXCEPT !.a = r.v, !.b = uint_zero(num.ty.size), !.via = "add"]
                 ELSE [num EXCEPT !.op = "panic", !.via = "add"]

IsValid ==
    /\ num.op = "new"
    /\ num' = [num EXCEPT !.op = "is_valid", !.valid = Some(is_valid(num.ty, num.a))]

StoreInto ==
    /\ num.op = "new"
    /\ num' = [num EXCEPT !.op = "store",
                          !.stored = store_into(num.ty, num.a, CellBuilder_new)]

BuildCell ==
    /\ num.op = "store" /\ num.stored.ok
    /\ num' = [num EXCEPT !.op = "build", !.cell = CellBuilder_build(num.stored.builder).cell]

BitLen ==
    /\ num.ty.kind # "small"
    /\ \/ num.op = "build"
       \/ num.op = "store" /\ ~num.stored.ok
    /\ num' = [num EXCEPT !.op = "bit_len", !.len = bit_len(num.ty, num.a)]

LoadFrom ==
    /\ num.op = "build"
    /\ num' = [num EXCEPT !.op = "load", !.loaded = load_from(num.ty, as_slice(num.cell))]

NumNext ==
    \/ CheckedAdd /\ UNCHANGED <<hashVars, tagVars, bocVars, loads, act, addr>>
    \/ CheckedSub /\ UNCHANGED <<hashVars, tagVars, bocVars, loads, act, addr>>
    \/ CheckedMul /\ UNCHANGED <<hashVars, tagVars, bocVars, loads, act, addr>>
    \/ CheckedDiv /\ UNCHANGED <<hashVars, tagVars, bocVars, loads, act, addr>>
    \/ OpsAdd /\ UNCHANGED <<hashVars, tagVars, bocVars, loads, act, addr>>
    \/ IsValid /\ UNCHANGED <<hashVars, tagVars, bocVars, loads, act, addr>>
    \/ StoreInto /\ UNCHANGED <<hashVars, tagVars, bocVars, loads, act, addr>>
    \/ BuildCell /\ UNCHANGED <<hashVars, tagVars, bocVars, loads, act, addr>>
    \/ BitLen /\ UNCHANGED <<hashVars, tagVars, bocVars, loads, act, addr>>
    \/ LoadFrom /\ UNCHANGED <<hashVars, tagVars, bocVars, loads, act, addr>>

SpecNum == NumInit /\ [][NumNext]_vars


(***************************************************************************)
(* C18.  For Uint9, Uint12, Uint15, VarUint24, VarUint56 and Tokens,       *)
(* checked_add, checked_sub, checked_mul and checked_div return Some(r)    *)
(* exactly when the operation on the primitive integers does not overflow, *)
(* underflow or divide by zero and r is at most MAX, and None otherwise,   *)
(* also when an operand is above MAX.                                      *)
(***************************************************************************)
PrimOf(op, a, b) ==
    CASE op = "checked_add" -> prim_checked_add(a, b)
      [] op = "checked_sub" -> prim_checked_sub(a, b)
      [] op = "checked_mul" -> prim_checked_mul(a, b)
      [] OTHER -> prim_checked_div(a, b)

\* The largest value of the primitive minus a.
Complement(a) == [i \in 1..Len(a) |-> 255 - a[i]]

\* The primitive result agrees with the inverse operation.
PrimSound(op, a, b, p) ==
    CASE op = "checked_add" ->
           /\ p.some <=> uint_le(b, Complement(a))
           /\ p.some => prim_checked_sub(p.v, b) = Some(a)
      [] op = "checked_sub" ->
           /\ p.some <=> uint_le(b, a)
           /\ p.some => prim_checked_add(p.v, b) = Some(a)
      [] op = "checked_mul" ->
           /\ p.some <=> (a = uint_zero(Len(a))
                            \/ uint_le(b, prim_checked_div(uint_max(Len(a)), a).v))
           /\ (p.some /\ a # uint_zero(Len(a))) =>
                 /\ prim_checked_div(p.v, a) = Some(b)
                 /\ \/ b = uint_zero(Len(b))
                    \/ prim_checked_div(prim_checked_sub(p.v, uint_from(1, Len(a))).v, a)
                           = prim_checked_sub(b, uint_from(1, Len(b)))
           /\ (p.some /\ a = uint_zero(Len(a))) => p.v = a
      [] OTHER ->
           /\ p.some <=> b # uint_zero(Len(b))
           /\ p.some =>
                 LET m == prim_checked_mul(p.v, b)
                 IN  /\ m.some /\ uint_le(m.v, a)
                     /\ prim_checked_sub(a, m.v).v # b
                     /\ uint_le(prim_checked_sub(a, m.v).v, b)

\* The value of a 16-bit primitive.
U16(v) == 256 * v[1] + v[2]

\* The result in integers, for the types over u16.
InIntegers(op, max, x, y) ==
    CASE op = "checked_add" -> IF x + y <= 65535 /\ x + y <= max THEN Some(x + y) ELSE None
      [] op = "checked_sub" -> IF x - y >= 0 /\ x - y <= max THEN Some(x - y) ELSE None
      [] op = "checked_mul" ->
           IF (x = 0 \/ y <= 65535 \div x) /\ x * y <= max THEN Some(x * y) ELSE None
      [] OTHER -> IF y # 0 /\ x \div y <= max THEN Some(x \div y) ELSE None

C18_CheckedOps ==
    num.op \in NumOps =>
        LET p == PrimOf(num.op, num.a, num.b)
        IN  /\ num.res = (IF p.some /\ uint_le(p.v, Ty_MAX(num.ty)) THEN Some(p.v) ELSE None)
            /\ PrimSound(num.op, num.a, num.b, p)
            /\ num.ty.size = 2 =>
                  LET r == InIntegers(num.op, Pow2(num.ty.bits) - 1, U16(num.a), U16(num.b))
                  IN  /\ num.res.some = r.some
                      /\ r.some => U16(num.res.v) = r.v

C18_Witness ==
    /\ num.op = "checked_sub"
    /\ num.ty.name = "Tokens"
    /\ ~uint_le(num.a, Ty_MAX(Tokens))
    /\ num.b = Ty_MAX(Tokens)
    /\ num.res = Some(uint_from(10, 16))


(***************************************************************************)
(* C19.  For every value v at most MAX of Uint9, Uint12, Uint15,           *)
(* VarUint24, VarUint56, Tokens or VarUint248 (also with a non-zero high   *)
(* 128-bit word), storing v into an empty builder succeeds and loading     *)
(* from the resulting cell returns exactly v.                              *)
(***************************************************************************)
\* v <= MAX: below 2^bits, or no more than max_bytes significant bytes.
AtMostMax(ty, v) ==
    IF ty.kind = "small" THEN 256 * v[1] + v[2] < Pow2(ty.bits)
    ELSE \A i \in 1..(ty.size - ty.max_bytes) : v[i] = 0

C19_StoreLoadRoundTrip ==
    /\ (num.op = "store" /\ AtMostMax(num.ty, num.a)) => num.stored.ok
    /\ num.op = "build" =>
          /\ num.cell.hashes # <<>>
          /\ num.cell.bit_len = Len(num.stored.builder)
    /\ num.op = "load" =>
          /\ AtMostMax(num.ty, num.a)
          /\ num.loaded.ok
          /\ num.loaded.v = num.a

C19_Witness ==
    /\ num.op = "load"
    /\ num.ty.name = "VarUint248"
    /\ num.a[2] # 0 /\ num.a[16] # 0 /\ num.a[32] # 0
    /\ num.loaded.ok
    /\ num.loaded.v = num.a


(***************************************************************************)
(* C20.  For VarUint24, VarUint56, Tokens and VarUint248, storing a value  *)
(* v at most MAX writes exactly bit_len(v) = LEN_BITS + 8 * (the minimal   *)
(* number of bytes of v, 0 for v = 0) bits; storing a value above MAX      *)
(* fails with CellOverflow, and bit_len of such a value is None.           *)
(***************************************************************************)
LenBitsOf(ty) ==
    CASE ty.name = "VarUint24" -> 2
      [] ty.name = "VarUint56" -> 3
      [] ty.name = "Tokens" -> 4
      [] OTHER -> 5

\* The bytes of v from its first non-zero byte on.
RECURSIVE MinBytes(_)
MinBytes(v) ==
    IF v = <<>> THEN 0
    ELSE IF v[1] # 0 THEN Len(v)
    ELSE MinBytes(Tail(v))

C20_VarLengthBits ==
    num.ty.kind # "small" =>
        /\ num.op = "store" =>
              IF AtMostMax(num.ty, num.a)
              THEN /\ num.stored.ok
                   /\ Len(num.stored.builder) = LenBitsOf(num.ty) + 8 * MinBytes(num.a)
              ELSE ~num.stored.ok /\ num.stored.err = "CellOverflow"
        /\ num.op = "bit_len" =>
              IF AtMostMax(num.ty, num.a)
              THEN /\ num.len = Some(LenBitsOf(num.ty) + 8 * MinBytes(num.a))
                   /\ num.stored.ok
                   /\ num.cell.bit_len = num.len.v
              ELSE /\ num.len = None
                   /\ ~num.stored.ok /\ num.stored.err = "CellOverflow"

C20_Witness ==
    /\ num.op = "bit_len"
    /\ num.ty.name = "Tokens"
    /\ MinBytes(num.a) = 9
    /\ num.len = Some(76)
    /\ num.cell.bit_len = 76


(***************************************************************************)
(* C21.  For Uint9, Uint12 and Uint15, store_into writes exactly BITS      *)
(* bits (9, 12, 15) when the value is at most MAX and fails with           *)
(* IntOverflow when the underlying u16 exceeds MAX; is_valid() is true     *)
(* exactly when the value is at most MAX, and unchecked addition produces  *)
(* invalid values such as MAX + 1.                                         *)
(***************************************************************************)
BitsOf(ty) ==
    CASE ty.name = "Uint9" -> 9
      [] ty.name = "Uint12" -> 12
      [] OTHER -> 15

C21_SmallUintStore ==
    num.ty.kind = "small" =>
        /\ num.op = "store" =>
              IF U16(num.a) <= Pow2(BitsOf(num.ty)) - 1
              THEN /\ num.stored.ok
                   /\ Len(num.stored.builder) = BitsOf(num.ty)
              ELSE /\ ~num.stored.ok
                   /\ num.stored.err = "IntOverflow"
        /\ num.op = "build" => num.cell.bit_len = BitsOf(num.ty)
        /\ num.op = "is_valid" =>
              num.valid = Some(U16(num.a) <= Pow2(BitsOf(num.ty)) - 1)

C21_Witness ==
    /\ num.ty.name = "Uint12"
    /\ num.via = "add"
    /\ U16(num.a) = 4096
    /\ num.op = "store"
    /\ num.stored = StoreErr("IntOverflow")


(***************************************************************************)
(* VarUint248's constants and ordering.                                    *)
(***************************************************************************)
\* VarUint248::new(value: u128).
VarUint248_new(value) == VarUint248_from_words(uint_zero(16), value)

\* pub const ONE: Self = Self([0; 2]): both words are zero.
VarUint248_ONE == uint_zero(16) \o uint_zero(16)

\* pub const MIN: Self = Self::new(1).
VarUint248_MIN == VarUint248_new(uint_from(1, 16))

\* pub const MAX: Self = Self::from_words(u128::MAX >> 8, u128::MAX).
VarUint248_MAX == VarUint248_from_words(shr(uint_max(16), 8), uint_max(16))

\* Ord: the pairs (hi, lo) compared lexicographically.
VarUint248_le(self, other) ==
    LET a == VarUint248_into_words(self)
        b == VarUint248_into_words(other)
    IN  IF a[1] # b[1] THEN uint_le(a[1], b[1]) ELSE uint_le(a[2], b[2])

(***************************************************************************)
(* C22.  VarUint248's constants match their documentation: ONE is the      *)
(* integer 1 (equal to VarUint248::new(1)), MIN is at most every           *)
(* VarUint248 value, and MAX is 2^248 - 1.                                 *)
(***************************************************************************)
C22_ConstantsAsDocumented ==
    num.ty.name = "VarUint248" =>
        /\ VarUint248_ONE = VarUint248_new(uint_from(1, 16))
        /\ VarUint248_le(VarUint248_MIN, num.a)
        /\ VarUint248_MAX = <<0>> \o [i \in 1..31 |-> 255]


(***************************************************************************)
(* SplitDepth: a NonZeroU8 stored in 5 bits.                               *)
(***************************************************************************)
SplitDepth_MIN == 1

SplitDepth_MAX == 30

SplitDepth_BITS == 5

SplitOk(v) == [ok |-> TRUE, err |-> "", v |-> v]

SplitErr(e) == [ok |-> FALSE, err |-> e, v |-> 0]

\* SplitDepth::new(value: u8): NonZeroU8::new(value), IntOverflow for None.
SplitDepth_new(value) ==
    IF value # 0 THEN SplitOk(value) ELSE SplitErr("IntOverflow")

\* SplitDepth::from_bit_len(bit_len: u16).
SplitDepth_from_bit_len(len) ==
    IF len < 255 THEN SplitDepth_new(len % 256)
    ELSE SplitErr("IntOverflow")

\* Store for SplitDepth.
SplitDepth_store_into(self, builder) == store_small_uint(builder, self, SplitDepth_BITS)

\* Load for SplitDepth.
SplitDepth_load_from(slice) ==
    LET r == load_small_uint(slice, SplitDepth_BITS)
    IN  IF r.ok THEN SplitDepth_new(r.v) ELSE SplitErr(r.err)

\* The bit lengths tried: around 0, the range's ends, 255 and the ends of u16.
SplitBitLens == 0..40 \cup 250..260 \cup {1023, 32767, 65534, 65535}

\* The cells loaded from: 5 bits of every value, and cells of 0 to 4 bits.
SplitCells ==
    {CellBuilder_build(store_small_uint(CellBuilder_new, v, SplitDepth_BITS).builder).cell : v \in 0..31}
        \cup {CellBuilder_build(store_small_uint(CellBuilder_new, 15, n).builder).cell : n \in 0..4}

(***************************************************************************)
(* The split depth specification: one call of new, from_bit_len or         *)
(* load_from, and a store of the value obtained.                           *)
(***************************************************************************)
SplitInit ==
    /\ num = [op |-> "none"]
    /\ loads = <<>>
    /\ ModelIdle
    /\ TagIdle
    /\ BocIdle
    /\ parts = MkParts(0, FALSE, 0, <<>>, <<>>)
    /\ hres = NoHashResult

SplitNew(value) ==
    /\ num.op = "none"
    /\ num' = [op |-> "new", arg |-> value, res |-> SplitDepth_new(value)]

SplitFromBitLen(len) ==
    /\ num.op = "none"
    /\ num' = [op |-> "from_bit_len", arg |-> len, res |-> SplitDepth_from_bit_len(len)]

SplitLoadFrom(cell) ==
    /\ num.op = "none"
    /\ num' = [op |-> "load_from",
               arg |-> IF cell.bit_len < SplitDepth_BITS THEN 0 - 1
                       ELSE slice_bits(as_slice(cell), SplitDepth_BITS, 1)[1],
               res |-> SplitDepth_load_from(as_slice(cell))]

SplitStore ==
    /\ num.op \in {"new", "from_bit_len", "load_from"}
    /\ num.res.ok
    /\ num' = [op |-> "store", arg |-> num.res.v,
               res |-> SplitDepth_load_from(
                           as_slice(CellBuilder_build(
                               SplitDepth_store_into(num.res.v, CellBuilder_new).builder).cell))]

SplitNext ==
    \/ \E value \in 0..255 : SplitNew(value) /\ UNCHANGED <<hashVars, tagVars, bocVars, loads, act, addr>>
    \/ \E len \in SplitBitLens :
          SplitFromBitLen(len) /\ UNCHANGED <<hashVars, tagVars, bocVars, loads, act, addr>>
    \/ \E cell \in SplitCells :
          SplitLoadFrom(cell) /\ UNCHANGED <<hashVars, tagVars, bocVars, loads, act, addr>>
    \/ SplitStore /\ UNCHANGED <<hashVars, tagVars, bocVars, loads, act, addr>>

SpecSplit == SplitInit /\ [][SplitNext]_vars

(***************************************************************************)
(* C23.  Every SplitDepth obtained through SplitDepth::new, from_bit_len   *)
(* or load_from lies in the documented range 1..=30, and every input       *)
(* outside that range is rejected with an error.                           *)
(***************************************************************************)
C23_SplitDepthInRange ==
    num.op \in {"new", "from_bit_len", "load_from"} =>
        /\ num.res.ok => (num.res.v >= SplitDepth_MIN /\ num.res.v <= SplitDepth_MAX)
        /\ (num.arg < SplitDepth_MIN \/ num.arg > SplitDepth_MAX) => ~num.res.ok


(***************************************************************************)
(* Hashing at the builder's limits: ordinary cells of up to 1023 bits      *)
(* (128 data bytes) with up to MAX_REF_COUNT children, next to the inputs  *)
(* of the hashing specification.                                           *)
(***************************************************************************)
MaxChildren == {LeafCell, PrunedCell, Pruned6Cell}

MaxRefChoices == UNION {[1..n -> MaxChildren] : n \in 0..MAX_REF_COUNT}

MaxInput(p) ==
    \E lm \in 0..7, bl \in {0, 8, 1016, 1017, 1023}, refs \in MaxRefChoices :
        p = MkParts(lm, FALSE, bl, MkData(171, lm, 17, bl), refs)

\* Ordinary inputs with the first data byte, length and reference count of
\* every exotic type.
OrdinaryTaggedInput(p) ==
    \E lm \in 0..7, bl \in {8, 264, 280, 552}, first \in FirstBytes, refs \in HashRefChoices :
        p = MkParts(lm, FALSE, bl, MkData(first, lm, 17, bl), refs)

HashMaxInit ==
    /\ \/ MaxInput(parts) \/ ExoticInput(parts)
       \/ OrdinaryInput(parts) \/ OrdinaryTaggedInput(parts)
    /\ hres = NoHashResult
    /\ NumIdle
    /\ TagIdle
    /\ BocIdle

SpecHashMax == HashMaxInit /\ [][HashNext]_vars

(***************************************************************************)
(* C24.  For every input within the builder limits (at most 128 data       *)
(* bytes and at most 4 references), the hash input assembled by            *)
(* compute_hashes at every level is at most 2 + 128 + 4 * (2 + 32) = 266   *)
(* bytes long, the size of the fixed buffer.                               *)
(***************************************************************************)
C24_HashInputFits ==
    (hres.done /\ Len(parts.data) <= 128 /\ Len(parts.references) <= MAX_REF_COUNT) =>
        /\ ~hres.ub
        /\ hres.err \in {"", "InvalidCell", "DepthOverflow"}
        /\ \A i \in 1..Len(hres.hashes) :
              /\ hres.hashes[i][1].k = "sha256"
              /\ HashedLen(hres.hashes[i][1].in) <= 266
              /\ HashedLen(hres.hashes[i][1].in) <= MAX_CELL_SIZE

C24_Witness ==
    /\ hres.done /\ hres.ok
    /\ Len(parts.data) = 128
    /\ Len(parts.references) = 4
    /\ Len(hres.hashes) = 4
    /\ HashedLen(hres.hashes[1][1].in) = 266
    /\ HashedLen(hres.hashes[4][1].in) = 2 + 32 + 4 * 34


(***************************************************************************)
(* C25.  The cell type is derived from the first data byte only when the   *)
(* exotic flag of the descriptor is set.  With the flag clear the cell is  *)
(* Ordinary whatever its first data byte is: no reference-count or         *)
(* bit-length constraint, and children are read at the level itself        *)
(* (levelOffset 0).  With the flag set, empty data or a first byte that is *)
(* none of the four exotic tags gives Err(InvalidCell) and no hashes.      *)
(***************************************************************************)
ExoticFlag(p) == (p.d1 \div 8) % 2 = 1

\* Level 0 and the levels set in the mask.
MaskLevels(mask) == {0} \cup {l \in 1..3 : (mask \div Pow2(l - 1)) % 2 = 1}

\* The k-th smallest level of the mask.
MaskLevelAt(mask, k) ==
    CHOOSE l \in MaskLevels(mask) : Cardinality({m \in MaskLevels(mask) : m < l}) = k - 1

OrdinaryOverflow(p) ==
    \E l \in MaskLevels(p.d1 \div 32), i \in 1..Len(p.references) :
        cell_depth(p.references[i], l) = 65535

C25_TypeFromExoticFlag ==
    hres.done =>
        /\ ~ExoticFlag(parts) =>
              /\ hres.ok <=> (parts.d1 \div 32 = ChildrenOr(parts.references)
                                /\ ~OrdinaryOverflow(parts))
              /\ parts.d1 \div 32 # ChildrenOr(parts.references) <=> hres.err = "InvalidCell"
              /\ hres.ok =>
                    /\ Len(hres.hashes) = Cardinality(MaskLevels(parts.d1 \div 32))
                    /\ \A i \in 1..Len(hres.hashes) :
                          LET in == hres.hashes[i][1].in
                              n == Len(parts.references)
                          IN  SubSeq(in, Len(in) - n + 1, Len(in))
                                  = ChildHashes(parts.references,
                                                MaskLevelAt(parts.d1 \div 32, i))
        /\ (ExoticFlag(parts) /\ (parts.data = <<>> \/ parts.data[1] \notin 1..4)) =>
              /\ ~hres.ok
              /\ hres.err = "InvalidCell"
              /\ hres.hashes = <<>>

C25_Witness ==
    /\ hres.done /\ hres.ok
    /\ ~ExoticFlag(parts)
    /\ parts.bit_len = 8
    /\ parts.data[1] = TAG_MERKLE_PROOF
    /\ Len(parts.references) = 2
    /\ Len(hres.hashes) = 2
    /\ cell_hash(parts.references[1], 0) # cell_hash(parts.references[1], 1)
    /\ hres.hashes[1][1].in[Len(hres.hashes[1][1].in) - 1].h = <<cell_hash(parts.references[1], 0)>>


(***************************************************************************)
(* Builders and slices with references.  A builder is [bits, refs]; the    *)
(* bit operations above act on its bits.  A slice is [cell, pos, rpos].    *)
(***************************************************************************)
RefBuilder_new == [bits |-> <<>>, refs |-> <<>>]

\* The result of a bit operation, put back into the builder.
with_bits(builder, r) ==
    IF r.ok THEN StoreOk([builder EXCEPT !.bits = r.builder]) ELSE r

store_bit(builder, bit) == with_bits(builder, store_small_uint(builder.bits, bit, 1))

store_u8(builder, value) == with_bits(builder, store_small_uint(builder.bits, value, 8))

store_u32(builder, value) ==
    with_bits(builder, store_uint(builder.bits, uint_widen(value, 8), 32))

store_u256(builder, value) ==
    IF ~has_capacity(builder.bits, 256, 0) THEN StoreErr("CellOverflow")
    ELSE StoreOk([builder EXCEPT !.bits = @ \o low_bits(value, 256)])

store_reference(builder, cell) ==
    IF Len(builder.refs) + 1 > MAX_REF_COUNT THEN StoreErr("CellOverflow")
    ELSE StoreOk([builder EXCEPT !.refs = Append(@, cell)])

RefBuilder_build(builder) ==
    finalized(MkParts(children_mask_of(builder.refs), FALSE, Len(builder.bits),
                          builder_data(builder.bits), builder.refs))

load_bit(slice) == load_small_uint(slice, 1)

load_u8(slice) == load_small_uint(slice, 8)

load_u32(slice) ==
    LET r == load_uint(slice, 32)
    IN  IF ~r.ok THEN r ELSE LoadOk(uint_low(r.v, 4), r.slice)

load_u256(slice) ==
    IF slice.pos + 256 > slice.cell.bit_len THEN LoadErr("CellUnderflow")
    ELSE LoadOk(slice_bits(slice, 256, 32), [slice EXCEPT !.pos = @ + 256])

load_reference(slice) ==
    IF slice.rpos + 1 > Len(slice.cell.references) THEN LoadErr("CellUnderflow")
    ELSE LoadOk(slice.cell.references[slice.rpos + 1], [slice EXCEPT !.rpos = @ + 1])

is_data_empty(slice) == slice.pos >= slice.cell.bit_len

is_refs_empty(slice) == slice.rpos >= Len(slice.cell.references)

remaining_bits(slice) == slice.cell.bit_len - slice.pos


(***************************************************************************)
(* Output actions (models/vm/out_actions.rs).  An action is a record with  *)
(* its kind and fields; flags are the u8 they wrap; a ChangeLibraryMode is *)
(* its discriminant 0..2; a LibRef is a hash or a cell.                          *)
(***************************************************************************)
TAG_SEND_MSG == <<14, 195, 200, 109>>

TAG_SET_CODE == <<173, 77, 224, 142>>

TAG_RESERVE == <<54, 230, 184, 9>>

TAG_CHANGE_LIB == <<38, 250, 29, 212>>

TAG_COPYLEFT == <<36, 72, 111, 122>>

SendMsg(mode, out_msg) == [kind |-> "SendMsg", mode |-> mode, out_msg |-> out_msg]

SetCode(new_code) == [kind |-> "SetCode", new_code |-> new_code]

ReserveCurrency(mode, value) == [kind |-> "ReserveCurrency", mode |-> mode, value |-> value]

ChangeLibrary(mode, lib) == [kind |-> "ChangeLibrary", mode |-> mode, lib |-> lib]

CopyLeft(license, address) == [kind |-> "CopyLeft", license |-> license, address |-> address]

LibRef_Hash(hash) == [kind |-> "Hash", hash |-> hash]

LibRef_Cell(cell) == [kind |-> "Cell", cell |-> cell]

\* TryFrom<u8> for ChangeLibraryMode.
ChangeLibraryMode_try_from(value) ==
    IF value \in {0, 1, 2} THEN [ok |-> TRUE, err |-> "", v |-> value]
    ELSE [ok |-> FALSE, err |-> "InvalidData", v |-> 0]

\* CurrencyCollection: the tokens, then the dictionary of other currencies as
\* one bit and, if set, a reference to its root.
CurrencyCollection(tokens, other) == [tokens |-> tokens, other |-> other]

CurrencyCollection_store_into(self, builder) ==
    LET t == with_bits(builder, Tokens_store_into(self.tokens, builder.bits))
    IN  IF ~t.ok THEN t
        ELSE IF ~self.other.some THEN store_bit(t.builder, 0)
        ELSE LET b == store_bit(t.builder, 1)
             IN  IF ~b.ok THEN b ELSE store_reference(b.builder, self.other.v)

CurrencyCollection_load_from(slice) ==
    LET t == Tokens_load_from(slice)
    IN  IF ~t.ok THEN t
        ELSE LET b == load_bit(t.slice)
             IN  IF ~b.ok THEN b
                 ELSE IF b.v = 0 THEN LoadOk(CurrencyCollection(t.v, None), b.slice)
                 ELSE LET r == load_reference(b.slice)
                      IN  IF ~r.ok THEN r
                          ELSE LoadOk(CurrencyCollection(t.v, Some(r.v)), r.slice)

\* Store for OutAction.
store_tagged_u8(builder, tag, byte) ==
    LET t == store_u32(builder, tag)
    IN  IF ~t.ok THEN t ELSE store_u8(t.builder, byte)

store_change_library(builder, mode, lib) ==
    LET t == store_u32(builder, TAG_CHANGE_LIB)
    IN  IF ~t.ok THEN t
        ELSE IF lib.kind = "Hash"
        THEN LET f == store_u8(t.builder, (mode * 2) % 256)
             IN  IF ~f.ok THEN f ELSE store_u256(f.builder, lib.hash)
        ELSE LET f == store_u8(t.builder, BitOr((mode * 2) % 256, 1))
             IN  IF ~f.ok THEN f ELSE store_reference(f.builder, lib.cell)

OutAction_store_into(self, builder) ==
    CASE self.kind = "SendMsg" ->
           LET f == store_tagged_u8(builder, TAG_SEND_MSG, self.mode)
           IN  IF ~f.ok THEN f ELSE store_reference(f.builder, self.out_msg)
      [] self.kind = "SetCode" ->
           LET t == store_u32(builder, TAG_SET_CODE)
           IN  IF ~t.ok THEN t ELSE store_reference(t.builder, self.new_code)
      [] self.kind = "ReserveCurrency" ->
           LET f == store_tagged_u8(builder, TAG_RESERVE, self.mode)
           IN  IF ~f.ok THEN f ELSE CurrencyCollection_store_into(self.value, f.builder)
      [] self.kind = "ChangeLibrary" -> store_change_library(builder, self.mode, self.lib)
      [] OTHER ->
           LET f == store_tagged_u8(builder, TAG_COPYLEFT, self.license)
           IN  IF ~f.ok THEN f ELSE store_u256(f.builder, self.address)

\* Load for OutAction, arm by arm.
load_send_msg(slice) ==
    LET mode == load_u8(slice)
    IN  IF ~mode.ok THEN mode
        ELSE LET out_msg == load_reference(mode.slice)
             IN  IF ~out_msg.ok THEN out_msg
                 ELSE LoadOk(SendMsg(mode.v, out_msg.v), out_msg.slice)

load_set_code(slice) ==
    LET new_code == load_reference(slice)
    IN  IF ~new_code.ok THEN new_code ELSE LoadOk(SetCode(new_code.v), new_code.slice)

load_reserve(slice) ==
    LET mode == load_u8(slice)
    IN  IF ~mode.ok THEN mode
        ELSE LET value == CurrencyCollection_load_from(mode.slice)
             IN  IF ~value.ok THEN value
                 ELSE LoadOk(ReserveCurrency(mode.v, value.v), value.slice)

\* A ChangeLibrary arm that takes the mode from the flags without a check.
load_change_lib_unchecked(slice) ==
    LET flags == load_u8(slice)
    IN  IF ~flags.ok THEN flags
        ELSE IF flags.v % 2 = 0
        THEN LET hash == load_u256(flags.slice)
             IN  IF ~hash.ok THEN hash
                 ELSE LoadOk(ChangeLibrary(flags.v \div 2, LibRef_Hash(hash.v)), hash.slice)
        ELSE LET cell == load_reference(flags.slice)
             IN  IF ~cell.ok THEN cell
                 ELSE LoadOk(ChangeLibrary(flags.v \div 2, LibRef_Cell(cell.v)), cell.slice)

load_change_lib(slice) ==
    LET flags == load_u8(slice)
    IN  IF ~flags.ok THEN flags
        ELSE LET mode == ChangeLibraryMode_try_from(flags.v \div 2)
             IN  IF ~mode.ok THEN LoadErr(mode.err)
                 ELSE IF flags.v % 2 = 0
                 THEN LET hash == load_u256(flags.slice)
                      IN  IF ~hash.ok THEN hash
                          ELSE LoadOk(ChangeLibrary(mode.v, LibRef_Hash(hash.v)), hash.slice)
                 ELSE LET cell == load_reference(flags.slice)
                      IN  IF ~cell.ok THEN cell
                          ELSE LoadOk(ChangeLibrary(mode.v, LibRef_Cell(cell.v)), cell.slice)

load_copyleft(slice) ==
    LET license == load_u8(slice)
    IN  IF ~license.ok THEN license
        ELSE LET address == load_u256(license.slice)
             IN  IF ~address.ok THEN address
                 ELSE LoadOk(CopyLeft(license.v, address.v), address.slice)

OutAction_load_from(slice) ==
    LET tag == load_u32(slice)
    IN  IF ~tag.ok THEN tag
        ELSE CASE tag.v = TAG_SEND_MSG -> load_send_msg(tag.slice)
               [] tag.v = TAG_SET_CODE -> load_set_code(tag.slice)
               [] tag.v = TAG_RESERVE -> load_reserve(tag.slice)
               [] tag.v = TAG_CHANGE_LIB -> load_change_lib(tag.slice)
               [] tag.v = TAG_COPYLEFT -> load_copyleft(tag.slice)
               [] OTHER -> LoadErr("InvalidTag")

\* CellSlice::new / Cell::as_slice as a Result: a pruned branch has no data to read.
CellSlice_new(cell) ==
    IF cell_type(cell) = "PrunedBranch" THEN LoadErr("PrunedBranchAccess")
    ELSE LoadOk(<<>>, as_slice(cell))

\* Iterator items: None, Some(Ok(action)), Some(Err(e)).
IterNone == [kind |-> "None"]

IterOk(action) == [kind |-> "Ok", v |-> action]

IterErr(e) == [kind |-> "Err", err |-> e]

\* OutActionsRevIter::next: the item and the slice the iterator is left with.
\* When OutAction::load_from fails, the slice stays where the failing read
\* left it, somewhere in the current cell: `known` is then FALSE.
OutActionsRevIter_next_on_ref(after_ref, prev_cell, action) ==
    IF ~action.ok THEN [item |-> IterErr(action.err), slice |-> after_ref, known |-> FALSE]
    ELSE IF ~CellSlice_new(prev_cell).ok
    THEN [item |-> IterErr(CellSlice_new(prev_cell).err), slice |-> action.slice, known |-> TRUE]
    ELSE [item |-> IterOk(action.v), slice |-> CellSlice_new(prev_cell).slice, known |-> TRUE]

\* An iterator that ends as soon as there is no reference to follow.
OutActionsRevIter_next_after_end(slice, prev_cell) ==
    IF ~prev_cell.ok
    THEN [item |-> IterNone, slice |-> slice, known |-> TRUE]
    ELSE OutActionsRevIter_next_on_ref(prev_cell.slice, prev_cell.v,
                                       OutAction_load_from(prev_cell.slice))

OutActionsRevIter_next_after(slice, prev_cell) ==
    IF ~prev_cell.ok
    THEN [item |-> IF is_data_empty(slice) /\ is_refs_empty(slice)
                   THEN IterNone ELSE IterErr("InvalidData"),
          slice |-> slice, known |-> TRUE]
    ELSE OutActionsRevIter_next_on_ref(prev_cell.slice, prev_cell.v,
                                       OutAction_load_from(prev_cell.slice))

OutActionsRevIter_next(slice) == OutActionsRevIter_next_after(slice, load_reference(slice))


(***************************************************************************)
(* The inputs of the action specification.                                 *)
(***************************************************************************)
MaxListLen == 3

MaxCalls == 5

DataCell(byte) == RefBuilder_build(store_u8(RefBuilder_new, byte).builder).cell

ActCells == {LeafCell, DataCell(171)}

HashUp == [i \in 1..32 |-> i]

HashDown == [i \in 1..32 |-> 256 - i]

ActHashes == {HashUp, HashDown, uint_zero(32)}

FlagBytes == {0, 1, 2, 3, 4, 8, 15, 16, 32, 64, 128, 240, 255}

ActTokens == {uint_zero(16), uint_from(1, 16), one_shl(16, 64), Ty_MAX(Tokens)}

OutActions ==
    {SendMsg(m, c) : m \in FlagBytes, c \in ActCells}
        \cup {SetCode(c) : c \in ActCells}
        \cup {ReserveCurrency(m, CurrencyCollection(t, o)) :
                  m \in FlagBytes, t \in ActTokens, o \in {None, Some(LeafCell)}}
        \cup {ChangeLibrary(m, l) :
                  m \in {0, 1, 2},
                  l \in {LibRef_Hash(h) : h \in ActHashes} \cup {LibRef_Cell(c) : c \in ActCells}}
        \cup {CopyLeft(l, h) : l \in {0, 1, 255}, h \in ActHashes}

ActionTags == {TAG_SEND_MSG, TAG_SET_CODE, TAG_RESERVE, TAG_CHANGE_LIB, TAG_COPYLEFT}

\* The five tags, each with one byte changed, and the ends of u32.
RawTags ==
    ActionTags
        \cup {[t EXCEPT ![i] = (@ + d) % 256] : t \in ActionTags, i \in 1..4, d \in {1, 128}}
        \cup {uint_zero(4), uint_max(4)}

\* Every flags byte after the ChangeLibrary tag, two after the others.
RawFlags(tag) == IF tag = TAG_CHANGE_LIB THEN 0..255 ELSE {0, 5}

\* A cell of a tag, a flags byte, 256 more bits and one reference.
RawActionCell(tag, flags) ==
    LET t == store_tagged_u8(RefBuilder_new, tag, flags)
        h == store_u256(t.builder, HashUp)
    IN  RefBuilder_build(store_reference(h.builder, LeafCell).builder).cell

\* The action lists: the simplest action of each kind, in lists of up to
\* MaxListLen entries.
ListActions ==
    {SendMsg(3, DataCell(171)), SetCode(LeafCell),
     ReserveCurrency(2, CurrencyCollection(uint_from(1, 16), Some(LeafCell))),
     ChangeLibrary(2, LibRef_Cell(LeafCell)), ChangeLibrary(1, LibRef_Hash(HashUp)),
     CopyLeft(7, HashDown)}

ActionLists == UNION {[1..n -> ListActions] : n \in 0..MaxListLen}

\* The list cell of an action: a reference to the previous list cell, then the action.
ListCell(prev, action) ==
    RefBuilder_build(
        OutAction_store_into(action, store_reference(RefBuilder_new, prev).builder).builder).cell

RECURSIVE ListHead(_, _)
ListHead(actions, k) ==
    IF k = 0 THEN LeafCell ELSE ListCell(ListHead(actions, k - 1), actions[k])

\* Cells that hold data and no reference: an action stored without the
\* reference to the previous cell, and a single byte.
NoRefCells ==
    {RefBuilder_build(OutAction_store_into(CopyLeft(7, HashDown), RefBuilder_new).builder).cell,
     DataCell(171)}

NewAct(op) ==
    [op |-> op, a |-> SetCode(LeafCell), stored |-> StoreErr(""), cell |-> NoCell,
     loaded |-> LoadErr(""), tag |-> <<>>, flags |-> 0,
     list |-> <<>>, wf |-> FALSE, slice |-> as_slice(NoCell), known |-> TRUE, out |-> <<>>]

(***************************************************************************)
(* The action specification: an action is stored, built and loaded back;   *)
(* or a raw cell is loaded; or a list is walked by OutActionsRevIter.      *)
(***************************************************************************)
ActInit ==
    /\ act = NoAct
    /\ addr = NoAddr
    /\ num = NoNum
    /\ loads = <<>>
    /\ TagIdle
    /\ BocIdle
    /\ parts = MkParts(0, FALSE, 0, <<>>, <<>>)
    /\ hres = NoHashResult

ActStore(a) ==
    /\ act.op = "none"
    /\ act' = [NewAct("store") EXCEPT !.a = a,
                                      !.stored = OutAction_store_into(a, RefBuilder_new)]

ActBuild ==
    /\ act.op = "store" /\ act.stored.ok
    /\ act' = [act EXCEPT !.op = "build", !.cell = RefBuilder_build(act.stored.builder).cell]

ActLoad ==
    /\ act.op = "build"
    /\ act' = [act EXCEPT !.op = "load", !.loaded = OutAction_load_from(as_slice(act.cell))]

ActLoadRaw(tag, flags) ==
    /\ act.op = "none"
    /\ act' = [NewAct("load_raw") EXCEPT
                  !.tag = tag, !.flags = flags, !.cell = RawActionCell(tag, flags),
                  !.loaded = OutAction_load_from(as_slice(RawActionCell(tag, flags)))]

IterNew(actions) ==
    /\ act.op = "none"
    /\ act' = [NewAct("iter") EXCEPT
                  !.list = actions, !.wf = TRUE,
                  !.slice = as_slice(ListHead(actions, Len(actions)))]

IterNewNoRef(cell) ==
    /\ act.op = "none"
    /\ act' = [NewAct("iter") EXCEPT !.cell = cell, !.slice = as_slice(cell)]

IterAdvance(r) ==
    act' = [act EXCEPT !.slice = r.slice, !.known = r.known, !.out = Append(@, r.item)]

IterNext ==
    /\ act.op = "iter" /\ act.known
    /\ Len(act.out) < MaxCalls
    /\ IterAdvance(OutActionsRevIter_next(act.slice))

ActNext ==
    \/ \E a \in OutActions : ActStore(a) /\ UNCHANGED <<hashVars, tagVars, bocVars, num, loads, addr>>
    \/ ActBuild /\ UNCHANGED <<hashVars, tagVars, bocVars, num, loads, addr>>
    \/ ActLoad /\ UNCHANGED <<hashVars, tagVars, bocVars, num, loads, addr>>
    \/ \E tag \in RawTags : \E flags \in RawFlags(tag) :
          ActLoadRaw(tag, flags) /\ UNCHANGED <<hashVars, tagVars, bocVars, num, loads, addr>>
    \/ \E actions \in ActionLists :
          IterNew(actions) /\ UNCHANGED <<hashVars, tagVars, bocVars, num, loads, addr>>
    \/ \E cell \in NoRefCells :
          IterNewNoRef(cell) /\ UNCHANGED <<hashVars, tagVars, bocVars, num, loads, addr>>
    \/ IterNext /\ UNCHANGED <<hashVars, tagVars, bocVars, num, loads, addr>>

SpecAct == ActInit /\ [][ActNext]_vars

(***************************************************************************)
(* C26.  OutAction store/load round trip and tag dispatch: load_from on    *)
(* the cell produced by store_into(a) returns the same variant with the    *)
(* same mode bits (all 8 bits of the SendMsg and ReserveCurrency flags)    *)
(* and payload; load_from fails with InvalidTag for every tag other than   *)
(* the five action tags, and with InvalidData for a ChangeLibrary whose    *)
(* flags byte shifted right by one exceeds 2; bit 0 of that byte selects   *)
(* Hash (0) or Cell (1).                                                   *)
(***************************************************************************)
C26_OutActionCodec ==
    /\ act.op = "store" => act.stored.ok
    /\ act.op = "load" =>
          /\ act.loaded.ok
          /\ act.loaded.v = act.a
    /\ act.op = "load_raw" =>
          /\ act.tag \notin {TAG_SEND_MSG, TAG_SET_CODE, TAG_RESERVE, TAG_CHANGE_LIB, TAG_COPYLEFT}
                => (~act.loaded.ok /\ act.loaded.err = "InvalidTag")
          /\ act.tag \in {TAG_SEND_MSG, TAG_SET_CODE, TAG_RESERVE, TAG_CHANGE_LIB, TAG_COPYLEFT}
                => act.loaded.err # "InvalidTag"
          /\ act.tag = TAG_CHANGE_LIB =>
                IF act.flags \div 2 > 2
                THEN ~act.loaded.ok /\ act.loaded.err = "InvalidData"
                ELSE /\ act.loaded.ok
                     /\ act.loaded.v.kind = "ChangeLibrary"
                     /\ act.loaded.v.mode = act.flags \div 2
                     /\ act.loaded.v.lib.kind = (IF act.flags % 2 = 0 THEN "Hash" ELSE "Cell")

C26_Witness ==
    /\ act.op = "load"
    /\ act.a.kind = "ReserveCurrency"
    /\ act.a.mode = 240
    /\ act.a.value.other.some
    /\ act.loaded.ok
    /\ act.loaded.v = act.a

(***************************************************************************)
(* C27.  OutActionsRevIter over a well-formed action list of n entries     *)
(* (each list cell holds a reference to the previous list cell and then    *)
(* one action, the first cell being empty) yields exactly n Ok items, from *)
(* the head of the list back to the first action, and then None.  When the *)
(* current slice has no reference but still has data, next returns         *)
(* Err(InvalidData), leaves the slice unchanged and so returns the same    *)
(* error on every later call.                                              *)
(***************************************************************************)
C27_RevIter ==
    act.op = "iter" =>
        IF act.wf
        THEN /\ act.known
             /\ \A i \in 1..Len(act.out) :
                   act.out[i] = (IF i <= Len(act.list)
                                 THEN IterOk(act.list[Len(act.list) + 1 - i])
                                 ELSE IterNone)
        ELSE /\ act.slice = as_slice(act.cell)
             /\ \A i \in 1..Len(act.out) : act.out[i] = IterErr("InvalidData")

C27_Witness ==
    /\ act.op = "iter" /\ act.wf
    /\ Len(act.list) = 3
    /\ act.list[1].kind = "SendMsg" /\ act.list[3].kind = "CopyLeft"
    /\ Len(act.out) = 5
    /\ act.out[1] = IterOk(act.list[3])
    /\ act.out[3] = IterOk(act.list[1])
    /\ act.out[4] = IterNone /\ act.out[5] = IterNone


(***************************************************************************)
(* Skipping a Tokens value in an augmented dictionary leaf.                *)
(***************************************************************************)
\* CellSlice::try_advance(bits, refs): moves the slice when both fit.
try_advance(slice, bits, refs) ==
    IF slice.pos + bits <= slice.cell.bit_len
       /\ slice.rpos + refs <= Len(slice.cell.references)
    THEN [ok |-> TRUE, slice |-> [slice EXCEPT !.pos = @ + bits, !.rpos = @ + refs]]
    ELSE [ok |-> FALSE, slice |-> slice]

\* A skip_value that advances by token_bytes bits instead of bytes.
skip_value_bits(slice) ==
    LET n == load_small_uint(slice, 4)
    IN  IF n.ok THEN try_advance(n.slice, n.v, 0)
        ELSE [ok |-> FALSE, slice |-> slice]

\* AugDictSkipValue for Tokens: the 4 bits of the length, then 8 * length bits.
skip_value(slice) ==
    LET n == load_small_uint(slice, 4)
    IN  IF n.ok THEN try_advance(n.slice, 8 * n.v, 0)
        ELSE [ok |-> FALSE, slice |-> slice]

\* The bits before the value in the cell and the references of the cell.
MaxPrefix == 3

MaxSkipRefs == 1

\* The numbers of bits after the length: none, one byte short, one bit
\* short, exactly the value, and more than the value.
SkipTails(len) == {k \in {0, 8 * len - 8, 8 * len - 1, 8 * len, 8 * len + 3} : k >= 0}

\* Bit i of the filler: 1, 0, 1, 1, 0, 1, 1, 0, ...
FillBits(n) == [i \in 1..n |-> IF i % 3 = 2 THEN 0 ELSE 1]

SkipCell(bits, refs) ==
    RefBuilder_build([bits |-> bits, refs |-> [i \in 1..refs |-> LeafCell]]).cell

\* Slices over a prefix, a length and a tail, and slices shorter than a length.
SkipSlices ==
    {[cell |-> SkipCell(FillBits(p) \o low_bits(<<len>>, 4) \o FillBits(k), r),
      pos |-> p, rpos |-> q] :
        <<p, len, k, r, q>> \in
            {t \in (0..MaxPrefix) \X (0..15) \X (0..123) \X (0..MaxSkipRefs) \X (0..MaxSkipRefs) :
                /\ t[1] \in {0, MaxPrefix}
                /\ t[3] \in SkipTails(t[2])
                /\ t[5] <= t[4]}}
    \cup {[cell |-> SkipCell(FillBits(n), r), pos |-> p, rpos |-> 0] :
            <<n, p, r>> \in {t \in (0..(MaxPrefix + 3)) \X (0..MaxPrefix) \X (0..MaxSkipRefs) :
                                t[2] <= t[1] /\ t[1] - t[2] < 4}}

NoSkip == [ok |-> FALSE, slice |-> as_slice(NoCell)]

SkipInit ==
    /\ \E slice \in SkipSlices :
          num = [op |-> "slice", slice |-> slice, skip_done |-> FALSE, skipped |-> NoSkip,
                 load_done |-> FALSE, loaded |-> LoadErr("")]
    /\ loads = <<>>
    /\ ModelIdle
    /\ TagIdle
    /\ BocIdle
    /\ parts = MkParts(0, FALSE, 0, <<>>, <<>>)
    /\ hres = NoHashResult

SkipValue ==
    /\ num.op = "slice" /\ ~num.skip_done
    /\ num' = [num EXCEPT !.skip_done = TRUE, !.skipped = skip_value(num.slice)]

SkipLoad ==
    /\ num.op = "slice" /\ ~num.load_done
    /\ num' = [num EXCEPT !.load_done = TRUE, !.loaded = Tokens_load_from(num.slice)]

SkipNext ==
    \/ SkipValue /\ UNCHANGED <<hashVars, tagVars, bocVars, loads, act, addr>>
    \/ SkipLoad /\ UNCHANGED <<hashVars, tagVars, bocVars, loads, act, addr>>

SpecSkip == SkipInit /\ [][SkipNext]_vars

\* The length read at the position of a slice with at least 4 bits.
SkipLen(slice) == load_small_uint(slice, 4).v

\* C28.  On any slice, skip_value for Tokens returns true exactly when
\* Tokens::load_from succeeds, and then both leave the slice 4 + 8 * len
\* bits further, len being the 4-bit length read first, and at the same
\* reference.
C28_SkipAgreesWithLoad ==
    (num.op = "slice" /\ num.skip_done /\ num.load_done) =>
        /\ num.skipped.ok = num.loaded.ok
        /\ num.skipped.ok =>
              /\ num.skipped.slice = num.loaded.slice
              /\ num.skipped.slice.pos = num.slice.pos + 4 + 8 * SkipLen(num.slice)
              /\ num.skipped.slice.rpos = num.slice.rpos
              /\ num.skipped.slice.cell = num.slice.cell

C28_Witness ==
    /\ num.op = "slice" /\ num.skip_done /\ num.load_done
    /\ num.skipped.ok /\ num.loaded.ok
    /\ num.slice.pos = MaxPrefix /\ num.slice.rpos = 0
    /\ Len(num.slice.cell.references) = 1
    /\ SkipLen(num.slice) = 15
    /\ num.skipped.slice.pos = MaxPrefix + 124
    /\ num.slice.cell.bit_len = MaxPrefix + 127


(***************************************************************************)
(* Internal addresses: StdAddr, VarAddr, IntAddr and the anycast info.     *)
(***************************************************************************)
\* A failed store: the error and the builder as the failure left it.
StoreFail(e, builder) == [ok |-> FALSE, err |-> e, builder |-> builder]

\* The result of a primitive, which writes nothing when it fails.
kept(builder, r) == IF r.ok THEN r ELSE StoreFail(r.err, builder)

\* The bytes of a bit string, the last byte filled with zero bits.
bits_to_bytes(bits) ==
    LET at(i) == IF i <= Len(bits) THEN bits[i] ELSE 0
    IN  [j \in 1..((Len(bits) + 7) \div 8) |->
            128 * at(8 * j - 7) + 64 * at(8 * j - 6) + 32 * at(8 * j - 5) + 16 * at(8 * j - 4)
            + 8 * at(8 * j - 3) + 4 * at(8 * j - 2) + 2 * at(8 * j - 1) + at(8 * j)]

\* CellBuilder::store_raw(value, bits): the first `bits` bits of the bytes.
store_raw(builder, value, bits) ==
    IF ~has_capacity(builder.bits, bits, 0) THEN StoreErr("CellOverflow")
    ELSE StoreOk([builder EXCEPT !.bits = @ \o [i \in 1..bits |-> bit_at(value, i)]])

\* CellSlice::has_remaining(bits, refs).
has_remaining(slice, bits, refs) ==
    /\ slice.pos + bits <= slice.cell.bit_len
    /\ slice.rpos + refs <= Len(slice.cell.references)

\* CellSlice::load_raw(target, bits): the bits into the first bytes of the target.
load_raw(slice, bits) ==
    IF ~has_remaining(slice, bits, 0) THEN LoadErr("CellUnderflow")
    ELSE LoadOk(bits_to_bytes([i \in 1..bits |-> cell_bit(slice.cell, slice.pos + i)]),
                [slice EXCEPT !.pos = @ + bits])

\* Uint9::into_inner.
into_inner(self) == 256 * self[1] + self[2]

\* `as u8` of an i8 and `as i8` of a u8.
as_u8(workchain) == (workchain + 256) % 256

as_i8(byte) == IF byte >= 128 THEN byte - 256 ELSE byte

\* `as u32` of an i32, as four bytes, and `as i32` of a u32.
as_u32(workchain) ==
    LET bytes(n) == <<n \div 16777216, (n \div 65536) % 256, (n \div 256) % 256, n % 256>>
    IN  IF workchain >= 0 THEN bytes(workchain)
        ELSE [bytes((workchain + 2147483647) + 1) EXCEPT ![1] = @ + 128]

as_i32(value) ==
    LET low(b1) == 16777216 * b1 + 65536 * value[2] + 256 * value[3] + value[4]
    IN  IF value[1] >= 128 THEN (low(value[1] - 128) - 2147483647) - 1 ELSE low(value[1])

Anycast(depth, rewrite_prefix) == [depth |-> depth, rewrite_prefix |-> rewrite_prefix]

NoAnycast == [some |-> FALSE, v |-> Anycast(0, <<>>)]

StdAddr(anycast, workchain, address) ==
    [kind |-> "Std", anycast |-> anycast, workchain |-> workchain, address |-> address]

VarAddr(anycast, address_len, workchain, address) ==
    [kind |-> "Var", anycast |-> anycast, address_len |-> address_len,
     workchain |-> workchain, address |-> address]

\* Anycast::bit_len.
Anycast_bit_len(self) == SplitDepth_BITS + self.depth

\* StdAddr::BITS_WITHOUT_ANYCAST.
BITS_WITHOUT_ANYCAST == 2 + 1 + 8 + 256

\* StdAddr::bit_len.
StdAddr_bit_len(self) ==
    BITS_WITHOUT_ANYCAST + (IF self.anycast.some THEN Anycast_bit_len(self.anycast.v) ELSE 0)

\* A u16 sum that overflowed with the overflow checks on: a panic.
U16Panic == [some |-> FALSE, v |-> 0]

\* The sum of two u16: the sum, or on overflow a panic (overflow checks on)
\* or the wrapped sum (overflow checks off).
u16_add(a, b) ==
    IF a + b <= U16_MAX THEN {Some(a + b)} ELSE {U16Panic, Some((a + b) % (U16_MAX + 1))}

\* bit_len += anycast.bit_len(), after the first sum.
add_anycast_bit_len(self, len_) ==
    IF ~len_.some THEN {U16Panic}
    ELSE IF ~self.anycast.some THEN {len_}
    ELSE u16_add(len_.v, Anycast_bit_len(self.anycast.v))

\* VarAddr::bit_len: the outcomes of the sums in u16.
VarAddr_bit_len(self) ==
    UNION {add_anycast_bit_len(self, len_) :
               len_ \in u16_add(2 + 1 + Uint9.bits + 32, into_inner(self.address_len))}

store_tag(builder, tag) ==
    kept(builder, with_bits(builder, store_small_uint(builder.bits, tag, 2)))

store_depth(self, builder) ==
    kept(builder, with_bits(builder, SplitDepth_store_into(self.depth, builder.bits)))

store_rewrite_prefix(self, r) ==
    IF ~r.ok THEN r ELSE kept(r.builder, store_raw(r.builder, self.rewrite_prefix, self.depth))

\* Store for Anycast.
Anycast_store_into(self, builder) ==
    IF ~has_capacity(builder.bits, Anycast_bit_len(self), 0)
    THEN StoreFail("CellOverflow", builder)
    ELSE store_rewrite_prefix(self, store_depth(self, builder))

load_rewrite_prefix(depth, p) ==
    IF ~p.ok THEN p ELSE LoadOk(Anycast(depth, p.v), p.slice)

load_anycast_fields(depth, after) ==
    IF ~depth.ok THEN LoadErr(depth.err)
    ELSE IF ~has_remaining(after, depth.v, 0) THEN LoadErr("CellUnderflow")
    ELSE load_rewrite_prefix(depth.v, load_raw(after, depth.v))

\* Load for Anycast.
Anycast_load_from(slice) ==
    load_anycast_fields(SplitDepth_load_from(slice), [slice EXCEPT !.pos = @ + SplitDepth_BITS])

store_some(self, b) == IF ~b.ok THEN b ELSE Anycast_store_into(self.v, b.builder)

\* Store for Option<Box<Anycast>>: a bit, then the value if there is one.
OptionAnycast_store_into(self, builder) ==
    IF ~self.some THEN kept(builder, store_bit(builder, 0))
    ELSE store_some(self, kept(builder, store_bit(builder, 1)))

load_some(a) == IF ~a.ok THEN a ELSE LoadOk(Some(a.v), a.slice)

load_option(b) ==
    IF ~b.ok THEN b
    ELSE IF b.v = 0 THEN LoadOk(NoAnycast, b.slice)
    ELSE load_some(Anycast_load_from(b.slice))

\* Load for Option<Box<Anycast>>.
OptionAnycast_load_from(slice) == load_option(load_bit(slice))

store_anycast(self, r) ==
    IF ~r.ok THEN r ELSE OptionAnycast_store_into(self.anycast, r.builder)

store_workchain_u8(self, r) ==
    IF ~r.ok THEN r ELSE kept(r.builder, store_u8(r.builder, as_u8(self.workchain)))

store_address_u256(self, r) ==
    IF ~r.ok THEN r ELSE kept(r.builder, store_u256(r.builder, self.address))

store_address_len(self, r) ==
    IF ~r.ok THEN r
    ELSE kept(r.builder,
              with_bits(r.builder, SmallUint_store_into(Uint9, self.address_len, r.builder.bits)))

store_workchain_u32(self, r) ==
    IF ~r.ok THEN r ELSE kept(r.builder, store_u32(r.builder, as_u32(self.workchain)))

store_address_raw(self, r) ==
    IF ~r.ok THEN r
    ELSE kept(r.builder, store_raw(r.builder, self.address, into_inner(self.address_len)))

\* A StdAddr store_into without the check of the capacity.
StdAddr_store_into_unchecked(self, builder) ==
    store_address_u256(self,
        store_workchain_u8(self, store_anycast(self, store_tag(builder, 2))))

\* Store for StdAddr.
StdAddr_store_into(self, builder) ==
    IF ~has_capacity(builder.bits, StdAddr_bit_len(self), 0)
    THEN StoreFail("CellOverflow", builder)
    ELSE store_address_u256(self,
             store_workchain_u8(self, store_anycast(self, store_tag(builder, 2))))

\* store_into of a VarAddr panicked in bit_len(): nothing was written.
StorePanic(builder) == StoreFail("panic", builder)

\* Store for VarAddr, with one outcome of self.bit_len().
VarAddr_store_checked(self, builder, len_) ==
    IF ~len_.some THEN StorePanic(builder)
    ELSE IF ~has_capacity(builder.bits, len_.v, 0)
    THEN StoreFail("CellOverflow", builder)
    ELSE store_address_raw(self,
             store_workchain_u32(self,
                 store_address_len(self, store_anycast(self, store_tag(builder, 3)))))

\* Store for VarAddr: the outcomes, one for each outcome of self.bit_len().
VarAddr_store_into(self, builder) ==
    {VarAddr_store_checked(self, builder, len_) : len_ \in VarAddr_bit_len(self)}

\* Store for IntAddr: the outcomes.
IntAddr_store_into(self, builder) ==
    IF self.kind = "Std" THEN {StdAddr_store_into(self, builder)}
    ELSE VarAddr_store_into(self, builder)

load_std_address(anycast, workchain, h) ==
    IF ~h.ok THEN h ELSE LoadOk(StdAddr(anycast, as_i8(workchain), h.v), h.slice)

load_std_workchain(anycast, w) ==
    IF ~w.ok THEN w ELSE load_std_address(anycast, w.v, load_u256(w.slice))

load_std_anycast(a) ==
    IF ~a.ok THEN a ELSE load_std_workchain(a.v, load_u8(a.slice))

\* The fields of a StdAddr after its tag.
load_std_fields(slice) == load_std_anycast(OptionAnycast_load_from(slice))

load_var_address(anycast, address_len, workchain, d) ==
    IF ~d.ok THEN d
    ELSE LoadOk(VarAddr(anycast, address_len, as_i32(workchain), d.v), d.slice)

load_var_workchain(anycast, address_len, w) ==
    IF ~w.ok THEN w
    ELSE IF ~has_remaining(w.slice, into_inner(address_len), 0) THEN LoadErr("CellUnderflow")
    ELSE load_var_address(anycast, address_len, w.v, load_raw(w.slice, into_inner(address_len)))

load_var_address_len(anycast, n) ==
    IF ~n.ok THEN n ELSE load_var_workchain(anycast, n.v, load_u32(n.slice))

load_var_anycast(a) ==
    IF ~a.ok THEN a ELSE load_var_address_len(a.v, SmallUint_load_from(Uint9, a.slice))

\* The fields of a VarAddr after its tag.
load_var_fields(slice) == load_var_anycast(OptionAnycast_load_from(slice))

load_int_second(b2) ==
    IF ~b2.ok THEN b2
    ELSE IF b2.v = 1 THEN load_var_fields(b2.slice)
    ELSE load_std_fields(b2.slice)

load_int_first(b1) ==
    IF ~b1.ok THEN b1
    ELSE IF b1.v = 0 THEN LoadErr("InvalidTag")
    ELSE load_int_second(load_bit(b1.slice))

\* Load for IntAddr.
IntAddr_load_from(slice) == load_int_first(load_bit(slice))

load_std_second_any(b2) == IF ~b2.ok THEN b2 ELSE load_std_fields(b2.slice)

load_std_second(b2) ==
    IF ~b2.ok THEN b2
    ELSE IF b2.v = 1 THEN LoadErr("InvalidTag")
    ELSE load_std_fields(b2.slice)

load_std_first(b1) ==
    IF ~b1.ok THEN b1
    ELSE IF b1.v = 0 THEN LoadErr("InvalidTag")
    ELSE load_std_second(load_bit(b1.slice))

\* A StdAddr load_from that takes any tag starting with 1.
StdAddr_load_from_any_tag(slice) ==
    LET b1 == load_bit(slice)
    IN  IF ~b1.ok THEN b1
        ELSE IF b1.v = 0 THEN LoadErr("InvalidTag")
        ELSE load_std_second_any(load_bit(b1.slice))

\* Load for StdAddr.
StdAddr_load_from(slice) == load_std_first(load_bit(slice))


(***************************************************************************)
(* The addresses stored and the cells loaded.                              *)
(***************************************************************************)
\* The bytes of n filler bits, as Anycast::from_slice and load_raw give them.
CanonBytes(n) == bits_to_bytes(FillBits(n))

\* Depths that SplitDepth::new accepts: within 1..=30, 31, and above 5 bits.
AnycastDepths == {1, 5, 8, 30, 31, 32, 33}

\* Anycast infos: exact prefixes, a prefix with bits set after the depth, and
\* a prefix with a byte more than the depth needs.
Anycasts ==
    {Anycast(d, CanonBytes(d)) : d \in AnycastDepths}
        \cup {Anycast(5, <<255>>), Anycast(8, <<171, 205>>)}

AnycastOptions == {NoAnycast} \cup {Some(a) : a \in Anycasts}

VarAnycastOptions ==
    {NoAnycast, Some(Anycast(5, CanonBytes(5))), Some(Anycast(30, CanonBytes(30))),
     Some(Anycast(5, <<255>>))}

HashValues == {[i \in 1..32 |-> (7 * i) % 256], uint_max(32)}

StdWorkchains == {-128, -1, 0, 127}

VarWorkchains == {(-2147483647) - 1, -1, 0, 305419896, 2147483647}

\* Address lengths: the ends of Uint9, around a byte, and one above Uint9::MAX.
AddressLens == {0, 1, 4, 8, 9, 256, 511, 512}

\* Addresses of a length: exact, with every bit of the last byte set, and
\* with a byte more than the length needs.
VarAddresses(len) ==
    {CanonBytes(len), [j \in 1..((len + 7) \div 8) |-> 255], CanonBytes(len) \o <<171>>}

StdAddrs ==
    {StdAddr(a, w, h) : <<a, w, h>> \in AnycastOptions \X StdWorkchains \X HashValues}

\* Address lengths far above Uint9::MAX, which Uint9::new accepts: the last
\* whose bit_len() fits u16, the first whose bit_len() overflows, and u16::MAX.
WideAddressLens == {U16_MAX - 44, U16_MAX - 43, U16_MAX}

WideAddressBytes == 64

\* Addresses of these lengths, with and without an anycast info of depth 5.
WideVarAddrs ==
    {VarAddr(a, uint_from(len, 2), w, [j \in 1..WideAddressBytes |-> 171]) :
         <<a, len, w>> \in {NoAnycast, Some(Anycast(5, <<176>>))} \X WideAddressLens \X {-1, 0}}

VarAddrs ==
    WideVarAddrs \cup
    UNION {{VarAddr(a, uint_from(len, 2), w, d) :
                <<a, w, d>> \in VarAnycastOptions \X VarWorkchains \X VarAddresses(len)} :
           len \in AddressLens}

IntAddrs == StdAddrs \cup VarAddrs

\* The outcomes of bit_len() of the address.
IntAddr_bit_len(self) ==
    IF self.kind = "Std" THEN {Some(StdAddr_bit_len(self))} ELSE VarAddr_bit_len(self)

\* bit_len() overflows u16.
BitLenOverflows(x) == U16Panic \in IntAddr_bit_len(x)

\* The number bit_len() returns when it returns: the sum, wrapped on overflow.
BitLenValue(x) == (CHOOSE n \in IntAddr_bit_len(x) : n.some).v

\* Builders to store into: empty, a few bits in, with exactly the room of
\* the address, with one bit less, and full.
StartBits(x) ==
    {0, MaxPrefix, MAX_BIT_LEN - BitLenValue(x), MAX_BIT_LEN - BitLenValue(x) + 1,
     MAX_BIT_LEN} \cap (0..MAX_BIT_LEN)

StartBuilder(n) == [bits |-> FillBits(n), refs |-> <<>>]

\* Cells to load from: every tag, followed by nothing, by the fields of a
\* stored address and by these fields cut short; and cells of 0 and 1 bits.
RawAddrs ==
    {StdAddr(NoAnycast, -1, uint_max(32)),
     StdAddr(Some(Anycast(5, CanonBytes(5))), 0, uint_max(32)),
     VarAddr(NoAnycast, uint_from(9, 2), -1, CanonBytes(9)),
     VarAddr(Some(Anycast(30, CanonBytes(30))), uint_from(256, 2), 0, CanonBytes(256))}

\* The bits of an address stored into an empty builder.
StoredBits(x) == (CHOOSE r \in IntAddr_store_into(x, RefBuilder_new) : r.ok).builder.bits

RawFields ==
    {<<>>}
        \cup {Tail(Tail(StoredBits(x))) : x \in RawAddrs}
        \cup {SubSeq(StoredBits(x), 3, Len(StoredBits(x)) - 1) : x \in RawAddrs}
        \cup {FillBits(n) : n \in {1, 6, 12, 300}}
        \cup {zero_bits(n) : n \in {1, 6, 300}}

RawAddrBits ==
    {<<>>, <<0>>, <<1>>} \cup {<<t[1], t[2]>> \o f : <<t, f>> \in ({0, 1} \X {0, 1}) \X RawFields}

NewAddr(op) ==
    [op |-> op, from |-> "store", x |-> StdAddr(NoAnycast, 0, uint_zero(32)),
     start |-> RefBuilder_new, stored |-> StoreFail("", RefBuilder_new),
     cell |-> NoCell, pos |-> 0, loaded |-> LoadErr("")]


(***************************************************************************)
(* The address specification: an address is stored into a builder, the     *)
(* cell is built and loaded as IntAddr or as StdAddr; or a cell of given   *)
(* bits is loaded.                                                         *)
(***************************************************************************)
AddrInit ==
    /\ addr = NoAddr
    /\ act = NoAct
    /\ num = NoNum
    /\ loads = <<>>
    /\ TagIdle
    /\ BocIdle
    /\ parts = MkParts(0, FALSE, 0, <<>>, <<>>)
    /\ hres = NoHashResult

AddrStore(x, n) ==
    /\ addr.op = "none"
    /\ \E r \in IntAddr_store_into(x, StartBuilder(n)) :
          addr' = [NewAddr("store") EXCEPT !.x = x, !.start = StartBuilder(n), !.stored = r]

AddrBuild ==
    /\ addr.op = "store" /\ addr.stored.ok
    /\ addr' = [addr EXCEPT !.op = "cell", !.cell = RefBuilder_build(addr.stored.builder).cell,
                            !.pos = Len(addr.start.bits)]

AddrRaw(bits) ==
    /\ addr.op = "none"
    /\ addr' = [NewAddr("cell") EXCEPT
                   !.from = "raw", !.cell = RefBuilder_build([bits |-> bits, refs |-> <<>>]).cell]

AddrSlice == [cell |-> addr.cell, pos |-> addr.pos, rpos |-> 0]

AddrLoad ==
    /\ addr.op = "cell"
    /\ addr' = [addr EXCEPT !.op = "load", !.loaded = IntAddr_load_from(AddrSlice)]

AddrLoadStd ==
    /\ addr.op = "cell"
    /\ addr' = [addr EXCEPT !.op = "load_std", !.loaded = StdAddr_load_from(AddrSlice)]

AddrNext ==
    \/ \E x \in IntAddrs : \E n \in StartBits(x) :
          AddrStore(x, n) /\ UNCHANGED <<hashVars, tagVars, bocVars, num, loads, act>>
    \/ AddrBuild /\ UNCHANGED <<hashVars, tagVars, bocVars, num, loads, act>>
    \/ \E bits \in RawAddrBits :
          AddrRaw(bits) /\ UNCHANGED <<hashVars, tagVars, bocVars, num, loads, act>>
    \/ AddrLoad /\ UNCHANGED <<hashVars, tagVars, bocVars, num, loads, act>>
    \/ AddrLoadStd /\ UNCHANGED <<hashVars, tagVars, bocVars, num, loads, act>>

SpecAddr == AddrInit /\ [][AddrNext]_vars

\* The bytes hold exactly `bits` bits: no byte more, no bit set after them.
ExactBytes(bytes, bits) ==
    /\ Len(bytes) = (bits + 7) \div 8
    /\ bytes = bits_to_bytes([i \in 1..bits |-> bit_at(bytes, i)])

\* An address as the loaders build it: a depth that fits SplitDepth::BITS
\* bits, and a prefix and an address of exactly their numbers of bits.
Canonical(x) ==
    /\ x.anycast.some =>
          /\ x.anycast.v.depth < Pow2(SplitDepth_BITS)
          /\ ExactBytes(x.anycast.v.rewrite_prefix, x.anycast.v.depth)
    /\ x.kind = "Var" => ExactBytes(x.address, into_inner(x.address_len))

\* The address stored is loaded back from the bits written.
RoundTrip(canonical) ==
    (addr.op = "load" /\ addr.from = "store" /\ (canonical => Canonical(addr.x))) =>
        addr.loaded.ok /\ addr.loaded.v = addr.x

\* The tag, the first two bits at the position loaded from.
AddrTag == <<cell_bit(addr.cell, addr.pos + 1), cell_bit(addr.cell, addr.pos + 2)>>

AddrBitsLeft == addr.cell.bit_len - addr.pos

\* IntAddr::load_from: InvalidTag for a first bit 0, a Std address for the
\* tag 10 and a Var address for 11; StdAddr::load_from: InvalidTag for every
\* tag but 10.
TagDispatch ==
    /\ (addr.op = "load" /\ AddrBitsLeft >= 1 /\ AddrTag[1] = 0) =>
          ~addr.loaded.ok /\ addr.loaded.err = "InvalidTag"
    /\ (addr.op = "load" /\ AddrBitsLeft >= 2 /\ AddrTag = <<1, 0>>) =>
          IF addr.loaded.ok THEN addr.loaded.v.kind = "Std"
          ELSE addr.loaded.err # "InvalidTag"
    /\ (addr.op = "load" /\ AddrBitsLeft >= 2 /\ AddrTag = <<1, 1>>) =>
          IF addr.loaded.ok THEN addr.loaded.v.kind = "Var"
          ELSE addr.loaded.err # "InvalidTag"
    /\ (addr.op = "load_std" /\ AddrBitsLeft >= 2 /\ AddrTag # <<1, 0>>) =>
          ~addr.loaded.ok /\ addr.loaded.err = "InvalidTag"

\* store_into of StdAddr and VarAddr: CellOverflow and the builder as it
\* was when there is no room for bit_len() bits; `fits` leaves out the
\* addresses whose bit_len() overflows u16.
StoreOverflow(fits) ==
    (/\ addr.op = "store"
     /\ fits => ~BitLenOverflows(addr.x)
     /\ ~has_capacity(addr.start.bits, BitLenValue(addr.x), 0)) =>
        /\ ~addr.stored.ok
        /\ addr.stored.err = "CellOverflow"
        /\ addr.stored.builder = addr.start

\* The bits store_into of a VarAddr writes before address_len.
BitsBeforeLen(x) == 2 + 1 + (IF x.anycast.some THEN Anycast_bit_len(x.anycast.v) ELSE 0)

\* Where bit_len() overflows u16, store_into panics or goes by the wrapped
\* sum: it never succeeds, and with room for the wrapped sum and for the
\* fields up to address_len the tag and the anycast info are written and
\* address_len, above Uint9::MAX, fails with IntOverflow.
WrappedStore ==
    (addr.op = "store" /\ BitLenOverflows(addr.x)) =>
        /\ ~addr.stored.ok
        /\ (/\ addr.stored.err # "panic"
            /\ has_capacity(addr.start.bits, BitLenValue(addr.x), 0)
            /\ has_capacity(addr.start.bits, BitsBeforeLen(addr.x) + Uint9.bits, 0)) =>
               /\ addr.stored.err = "IntOverflow"
               /\ Len(addr.stored.builder.bits) = Len(addr.start.bits) + BitsBeforeLen(addr.x)

\* C29 as stated.  Every IntAddr that fits in a cell is loaded back by
\* IntAddr::load_from from the bits store_into wrote; load_from fails with
\* InvalidTag for a first bit 0 and decodes Std for the tag 10 and Var for 11,
\* StdAddr::load_from fails with InvalidTag for every tag but 10; store_into
\* fails with CellOverflow and writes nothing without room for bit_len() bits.
C29_IntAddrCodec == RoundTrip(FALSE) /\ TagDispatch /\ StoreOverflow(FALSE)

\* C29, amended.  The same, for the addresses whose anycast depth fits
\* SplitDepth::BITS bits and whose rewrite_prefix and address hold exactly
\* depth and address_len bits, in ceil(bits / 8) bytes with zero bits after
\* the last: these are loaded back equal.  store_into fails with
\* CellOverflow and writes nothing without room for bit_len() bits when the
\* sum bit_len() adds up fits u16; when it does not, store_into panics or
\* goes by the wrapped sum.
C29_CanonicalIntAddrCodec ==
    RoundTrip(TRUE) /\ TagDispatch /\ StoreOverflow(TRUE) /\ WrappedStore

C29_Witness ==
    /\ addr.op = "load" /\ addr.from = "store"
    /\ addr.x.kind = "Var" /\ addr.x.anycast.some /\ Canonical(addr.x)
    /\ addr.x.anycast.v.depth = 30
    /\ into_inner(addr.x.address_len) = 511
    /\ addr.x.workchain = -1
    /\ addr.pos = MAX_BIT_LEN - BitLenValue(addr.x)
    /\ addr.loaded.ok /\ addr.loaded.v = addr.x

====
